---- MODULE Spec2Model ----
(***************************************************************************)
(* sitelens: the audit orchestrator (AuditEngine.run with BrowserManager), *)
(* the scorers and breakdown generators, the scanners' sub-checks, the     *)
(* site crawler and the CLI audit command.                                 *)
(*                                                                         *)
(* The specifications of the module:                                       *)
(*   Spec          one call of AuditEngine.run, one step per await         *)
(*   SpecMetric    createMetricData applied to a metric key and a value    *)
(*   SpecScore     the breakdown generators applied to analyzer results    *)
(*   SpecCalc      the scoring stage of run(), in double arithmetic        *)
(*   SpecSuggest   the suggestion generators                               *)
(*   SpecFacts     extractFacts                                            *)
(*   SpecShare     two concurrent calls of run()                           *)
(*   SpecReviews   the rating extraction of ReviewsScanner                 *)
(*   SpecGbp       the profile detection of LocalPresenceScanner           *)
(*   SpecCrawl     SiteCrawler.crawl                                       *)
(*   SpecSubCheck  the network requests made inside the analyzers          *)
(*   SpecCli       the CLI audit command                                   *)
(***************************************************************************)
EXTENDS Integers, Sequences, FiniteSets, TLC

VARIABLES
    \* ---- AuditEngine.run / BrowserManager ----
    configUrl,      \* config.url as given by the caller
    configTimeout,  \* config.timeout as given by the caller
    progress,       \* the values passed to the caller's progress callback
    pc,             \* position of run() (the await it is at)
    browser,        \* BrowserManager.browser: "null" or "open"
    calls,          \* collaborator calls made so far, in order
    navLog,         \* navigateToUrl attempts: <<[url, ok]>>
    resolvedUrl,    \* result of getPage (NoUrl until it returns)
    received,       \* URL each collaborator was handed (NoUrl: not invoked)
    thrownBy,       \* the step whose await threw ("none" if none)
    completion,     \* how the try block ended, held while finally runs
    outcome,        \* "pending", "resolved" or "rejected": run()'s promise
    error,          \* the error run() rejected with
    report,         \* the value run() resolved with
    closeCalls,     \* number of BrowserManager.close() calls
    \* ---- metric scorer ----
    mPc, mMetric, mValue, mData,
    \* ---- category scores ----
    sPc, sReport, sOut

runVars    == <<configUrl, configTimeout, progress, pc, browser, calls, navLog, resolvedUrl, received,
                thrownBy, completion, outcome, error, report, closeCalls>>
metricVars == <<mPc, mMetric, mValue, mData>>
scoreVars  == <<sPc, sReport, sOut>>
vars       == <<runVars, metricVars, scoreVars>>

(***************************************************************************)
(* URLs.  A URL string is kept as its scheme prefix as written (case       *)
(* matters to startsWith, not to the regular expression of normalizeUrl)   *)
(* and the rest.  scheme "" is a string without a protocol.                *)
(***************************************************************************)
InputUrls    == [scheme : {"https", "http", "HTTPS", ""},
                 host : {"site.example"}]
NoUrl        == [scheme |-> "-", host |-> "-"]

\* BrowserManager.normalizeUrl: add https:// when no protocol is present
\* (/^https?:\/\//i)
normalizeUrl(u) ==
    LET HasProtocol == u.scheme \in {"https", "http", "HTTPS", "HTTP"}
    IN  IF HasProtocol THEN u ELSE [scheme |-> "https", host |-> u.host]

\* new URL(url).href lower-cases the scheme: the scheme the request goes over
WireScheme(u) ==
    CASE u.scheme \in {"https", "HTTPS"} -> "https"
      [] u.scheme \in {"http", "HTTP"}   -> "http"
      [] OTHER                           -> u.scheme

\* resolveUrl line 95: url.startsWith("https://")
startsWithHttps(u) == u.scheme = "https"

\* resolveUrl line 96: url.replace("https://", "http://")
httpUrl(u) == [scheme |-> "http", host |-> u.host]

(***************************************************************************)
(* Errors                                                                  *)
(***************************************************************************)
NoError        == [step |-> "none", attempt |-> 0]
StepError(s)   == [step |-> s, attempt |-> 0]
NavError(n)    == [step |-> "navigate", attempt |-> n]

(***************************************************************************)
(* AuditEngine.run: the order of the awaited calls inside the try block    *)
(***************************************************************************)
Analyzers == <<"seo", "social", "tech", "advertising", "ecommerce",
               "local", "localPresence", "reviews">>
AnalyzerSet == {Analyzers[i] : i \in 1..Len(Analyzers)}

StepsScreenshotsFirst ==
    <<"launch", "getPage", "getHtml", "screenshots", "lighthouse">>
        \o Analyzers \o <<"pageClose", "scoring">>

Steps ==
    <<"launch", "getPage", "getHtml", "lighthouse", "screenshots">>
        \o Analyzers \o <<"pageClose", "scoring">>

\* the position after step s returned normally
StepAfter(s) ==
    LET StepIndex == CHOOSE i \in 1..Len(Steps) : Steps[i] = s
    IN  IF StepIndex = Len(Steps) THEN "return" ELSE Steps[StepIndex + 1]

\* the steps that are handed the page context or the resolved URL
Recipients == {"lighthouse", "screenshots"} \cup AnalyzerSet \cup {"facts"}

\* run has a try/finally and no catch, and no await inside the try block is
\* wrapped: a throw at any step leaves the try block
onThrowContinue(s) == StepAfter(s)

onThrow(s) == "finally"

\* context.url (line 128) for a config.url c and a resolved URL r
contextUrlOriginal(c, r) == c

contextUrl(c, r) == r

\* BrowserManager.close: browser.close() and this.browser = null
closeKeepsBrowser(b) == b

close(b) == "null"

(***************************************************************************)
(* The report assembled by the scoring stage (lines 184-255).  Every       *)
(* analyzer's own result is stored; issues are those the analyzers made.   *)
(***************************************************************************)
NoReport == [present |-> FALSE, url |-> NoUrl, factsUrl |-> NoUrl,
             details |-> [a \in AnalyzerSet |-> "none"],
             issueCategories |-> {}]

\* issueCategories: the categories of the issues the scanners create; run()
\* adds none of its own
AssembleReport(r, factsU) ==
    [present |-> TRUE, url |-> r, factsUrl |-> factsU,
     details |-> [a \in AnalyzerSet |-> "data"],
     issueCategories |-> {"seo", "social", "security", "local", "performance"}]

(***************************************************************************)
(* Initial state of one run                                                *)
(***************************************************************************)
\* getPage(url, timeout = 60000): run() passes config.url only
GetPageTimeout == 60000

\* progress messages the scanners emit through context.onProgress during
\* one run()
MaxAdHoc == 2

\* report(progress, message) before each awaited step of run()
Milestone ==
    [launch |-> 5, getPage |-> 10, getHtml |-> 15, lighthouse |-> 20,
     screenshots |-> 35, seo |-> 50, social |-> 60, tech |-> 65,
     advertising |-> 70, ecommerce |-> 75, local |-> 80,
     localPresence |-> 83, reviews |-> 86]
\* the reports of the scoring stage, the last one right before the return
ScoringMilestones == <<92, 93, 94, 95, 96, 97, 100>>

\* report: currentProgress = progress; onProgress(progress, message).
\* currentProgress is 0 at first and then the value reported last
currentProgressReset(log) == 0

currentProgress(log) == IF log = <<>> THEN 0 ELSE log[Len(log)]

\* context.onProgress(msg) called n times by a scanner:
\* report(currentProgress, msg)
adHocProgress(log, n) == log \o [i \in 1..n |-> currentProgress(log)]

MetricIdle == mPc = "idle" /\ mMetric = "lcp" /\ mValue = 0 /\ mData = 0
ScoreIdle  == sPc = "idle" /\ sReport = 0 /\ sOut = 0

InitRun ==
    /\ configUrl \in InputUrls
    /\ configTimeout \in {30000, 60000}
    /\ progress = <<>>
    /\ pc = "launch"
    /\ browser = "null"
    /\ calls = <<>>
    /\ navLog = <<>>
    /\ resolvedUrl = NoUrl
    /\ received = [r \in Recipients |-> NoUrl]
    /\ thrownBy = "none"
    /\ completion = [kind |-> "running", error |-> NoError, value |-> NoReport]
    /\ outcome = "pending"
    /\ error = NoError
    /\ report = NoReport
    /\ closeCalls = 0

\* a throw at step s with error e
Throw(s, e) ==
    /\ thrownBy' = s
    /\ pc' = onThrow(s)
    /\ completion' = IF onThrow(s) = "finally"
                        THEN [kind |-> "throw", error |-> e, value |-> NoReport]
                        ELSE completion

\* await this.browserManager.launch()
Launch ==
    /\ pc = "launch"
    /\ progress' = Append(progress, Milestone["launch"])
    /\ calls' = Append(calls, "launch")
    /\ \E ok \in BOOLEAN :
         IF ok
            THEN /\ browser' = "open"
                 /\ pc' = StepAfter("launch")
                 /\ UNCHANGED <<thrownBy, completion>>
            ELSE /\ browser' = browser
                 /\ Throw("launch", StepError("launch"))
    /\ UNCHANGED <<configUrl, configTimeout, navLog, resolvedUrl, received, outcome, error,
                   report, closeCalls>>

\* getPage up to the first navigation: the browser check and newPage()
GetPage ==
    /\ pc = "getPage"
    /\ progress' = Append(progress, Milestone["getPage"])
    /\ calls' = Append(calls, "getPage")
    /\ IF browser = "null"
          THEN Throw("getPage", StepError("notLaunched"))
          ELSE \E ok \in BOOLEAN :
                 IF ok THEN /\ pc' = "nav1"
                            /\ UNCHANGED <<thrownBy, completion>>
                       ELSE Throw("getPage", StepError("newPage"))
    /\ UNCHANGED <<configUrl, configTimeout, browser, navLog, resolvedUrl, received, outcome,
                   error, report, closeCalls>>

\* resolveUrl, first navigateToUrl (lines 90-95)
Navigate1 ==
    /\ pc = "nav1"
    /\ LET url == normalizeUrl(configUrl) IN
       \E ok \in BOOLEAN :
         /\ navLog' = Append(navLog, [url |-> url, ok |-> ok,
                                      timeout |-> GetPageTimeout])
         /\ IF ok
               THEN /\ resolvedUrl' = url
                    /\ pc' = StepAfter("getPage")
                    /\ UNCHANGED <<thrownBy, completion>>
               ELSE /\ resolvedUrl' = resolvedUrl
                    /\ IF startsWithHttps(url)
                          THEN /\ pc' = "nav2"
                               /\ UNCHANGED <<thrownBy, completion>>
                          ELSE Throw("getPage", NavError(1))
    /\ UNCHANGED <<configUrl, configTimeout, progress, browser, calls,
                   received, outcome, error, report, closeCalls>>

\* resolveUrl, the http fallback (lines 96-104)
Navigate2 ==
    /\ pc = "nav2"
    /\ LET url == httpUrl(normalizeUrl(configUrl)) IN
       \E ok \in BOOLEAN :
         /\ navLog' = Append(navLog, [url |-> url, ok |-> ok,
                                      timeout |-> GetPageTimeout])
         /\ IF ok
               THEN /\ resolvedUrl' = url
                    /\ pc' = StepAfter("getPage")
                    /\ UNCHANGED <<thrownBy, completion>>
               ELSE /\ resolvedUrl' = resolvedUrl
                    /\ Throw("getPage", NavError(1))
    /\ UNCHANGED <<configUrl, configTimeout, progress, browser, calls,
                   received, outcome, error, report, closeCalls>>

\* getHtml and page.close(): awaits that are handed no URL
PlainStep(s) ==
    /\ pc = s
    /\ progress' = IF s \in DOMAIN Milestone
                       THEN Append(progress, Milestone[s])
                       ELSE progress
    /\ calls' = Append(calls, s)
    /\ \E ok \in BOOLEAN :
         IF ok THEN /\ pc' = StepAfter(s)
                    /\ UNCHANGED <<thrownBy, completion>>
               ELSE Throw(s, StepError(s))
    /\ UNCHANGED <<configUrl, configTimeout, browser, navLog, resolvedUrl, received, outcome,
                   error, report, closeCalls>>

GetHtml   == PlainStep("getHtml")
PageClose == PlainStep("pageClose")

\* lighthouseScanner.run(context) and each <scanner>.run(context)
ContextStep(s) ==
    /\ pc = s
    /\ LET \* the messages of the scanners among the reports so far (the
           \* milestones are distinct)
           adHocCount ==
               Len(progress)
                 - Cardinality({progress[i] : i \in 1..Len(progress)})
       IN  \E n \in 0..(MaxAdHoc - adHocCount) :
             progress' = adHocProgress(Append(progress, Milestone[s]), n)
    /\ calls' = Append(calls, s)
    /\ received' = [received EXCEPT ![s] = contextUrl(configUrl, resolvedUrl)]
    /\ \E ok \in BOOLEAN :
         IF ok THEN /\ pc' = StepAfter(s)
                    /\ UNCHANGED <<thrownBy, completion>>
               ELSE Throw(s, StepError(s))
    /\ UNCHANGED <<configUrl, configTimeout, browser, navLog, resolvedUrl, outcome, error,
                   report, closeCalls>>

Lighthouse == ContextStep("lighthouse")
Analyzer   == \E a \in AnalyzerSet : ContextStep(a)

\* captureScreenshotBuffers(page, resolvedUrl)
Screenshots ==
    /\ pc = "screenshots"
    /\ progress' = Append(progress, Milestone["screenshots"])
    /\ calls' = Append(calls, "screenshots")
    /\ received' = [received EXCEPT !["screenshots"] = resolvedUrl]
    /\ \E ok \in BOOLEAN :
         IF ok THEN /\ pc' = StepAfter("screenshots")
                    /\ UNCHANGED <<thrownBy, completion>>
               ELSE Throw("screenshots", StepError("screenshots"))
    /\ UNCHANGED <<configUrl, configTimeout, browser, navLog, resolvedUrl, outcome, error,
                   report, closeCalls>>

\* lines 182-255: scoring, extractFacts(reportWithScores, resolvedUrl), the
\* suggestion and summary stages, and the return statement
Scoring ==
    /\ pc = "scoring"
    /\ calls' = Append(calls, "scoring")
    /\ \E ok \in BOOLEAN :
         IF ok
            THEN /\ received' = [received EXCEPT !["facts"] = resolvedUrl]
                 /\ progress' = progress \o ScoringMilestones
                 /\ pc' = "finally"
                 /\ completion' =
                        [kind |-> "return", error |-> NoError,
                         value |-> AssembleReport(resolvedUrl, resolvedUrl)]
                 /\ UNCHANGED thrownBy
            ELSE /\ received' = received
                 /\ \E n \in 1..(Len(ScoringMilestones) - 1) :
                      progress' = progress \o SubSeq(ScoringMilestones, 1, n)
                 /\ Throw("scoring", StepError("scoring"))
    /\ UNCHANGED <<configUrl, configTimeout, browser, navLog, resolvedUrl, outcome, error,
                   report, closeCalls>>

\* finally { await this.browserManager.close() }, then run() settles
Finally ==
    /\ pc = "finally"
    /\ closeCalls' = closeCalls + 1
    /\ browser' = close(browser)
    /\ pc' = "done"
    /\ outcome' = IF completion.kind = "return" THEN "resolved" ELSE "rejected"
    /\ error' = completion.error
    /\ report' = completion.value
    /\ UNCHANGED <<configUrl, configTimeout, progress, calls, navLog,
                   resolvedUrl, received, thrownBy, completion>>

NextRun ==
    \/ Launch
    \/ GetPage
    \/ Navigate1
    \/ Navigate2
    \/ GetHtml
    \/ Lighthouse
    \/ Screenshots
    \/ Analyzer
    \/ PageClose
    \/ Scoring
    \/ Finally

Init == InitRun /\ MetricIdle /\ ScoreIdle
Next == NextRun /\ UNCHANGED <<metricVars, scoreVars>>
Spec == Init /\ [][Next]_vars

(***************************************************************************)
(* Properties of AuditEngine.run                                           *)
(***************************************************************************)
Called(s)      == \E i \in 1..Len(calls) : calls[i] = s
CallCount(s)   == Cardinality({i \in 1..Len(calls) : calls[i] = s})
IsPrefix(p, q) == Len(p) <= Len(q) /\ \A i \in 1..Len(p) : p[i] = q[i]
Settled        == outcome # "pending"
GetPageOver    == pc \notin {"launch", "getPage", "nav1", "nav2"}

\* both navigation attempts were made and both failed
BothSchemesFailed ==
    Len(navLog) = 2 /\ ~navLog[1].ok /\ ~navLog[2].ok

\* the attempt over https failed and the http fallback succeeded
HttpsFailedHttpOk ==
    /\ Len(navLog) = 2
    /\ WireScheme(navLog[1].url) = "https" /\ ~navLog[1].ok
    /\ WireScheme(navLog[2].url) = "http" /\ navLog[2].ok

\* C1: if an analyzer throws, the error is not propagated: run() resolves
\* with a result and every analyzer of the sequence has been invoked.
C1_AnalyzerFailureIsolated ==
    (Settled /\ thrownBy \in AnalyzerSet) =>
        /\ outcome = "resolved"
        /\ \A a \in AnalyzerSet : Called(a)

\* C2: if an analyzer throws, the returned report holds the predefined
\* default for that analyzer and an issue of category "scanner failure".
C2_DefaultResultAndIssue ==
    (Settled /\ thrownBy \in AnalyzerSet) =>
        /\ report.present
        /\ report.details[thrownBy] = "default"
        /\ "scanner failure" \in report.issueCategories

C4_Order ==
    <<"launch", "getPage", "getHtml", "lighthouse", "screenshots", "seo",
      "social", "tech", "advertising", "ecommerce", "local", "localPresence",
      "reviews", "pageClose", "scoring">>

C4_FixedSequence ==
    /\ IsPrefix(calls, C4_Order)
    /\ CallCount("lighthouse") <= 1
    /\ report.present => CallCount("lighthouse") = 1
    /\ Called("screenshots") => Called("lighthouse")
    /\ \A a \in AnalyzerSet :
         /\ Called(a) => (Called("lighthouse") /\ Called("screenshots"))
         /\ CallCount(a) <= 1

C4_Witness ==
    outcome = "resolved" /\ Len(calls) = 15 /\ report.present

C6_ResolvedUrlEverywhere ==
    HttpsFailedHttpOk =>
        /\ GetPageOver => resolvedUrl = [scheme |-> "http", host |-> configUrl.host]
        /\ \A r \in Recipients \ {"facts"} :
             Called(r) => (received[r] = resolvedUrl /\ received[r] # configUrl)
        /\ report.present =>
             /\ received["facts"] = resolvedUrl
             /\ report.factsUrl = resolvedUrl /\ report.factsUrl # configUrl
             /\ report.url = resolvedUrl

C6_Witness ==
    HttpsFailedHttpOk /\ report.present /\ configUrl.scheme = "https"

\* C7: at most two navigation attempts; a failed attempt over https is
\* retried exactly once over http; no attempt follows a success; when both
\* fail the error of the first attempt is thrown; no other step is retried.
C7_SingleSchemeFallback ==
    /\ Len(navLog) <= 2
    /\ (GetPageOver /\ navLog # <<>> /\ ~navLog[1].ok
          /\ WireScheme(navLog[1].url) = "https") =>
            (Len(navLog) = 2 /\ WireScheme(navLog[2].url) = "http")
    /\ (navLog # <<>> /\ navLog[1].ok) => Len(navLog) = 1
    /\ (Settled /\ BothSchemesFailed) => error = NavError(1)
    /\ \A s \in {calls[i] : i \in 1..Len(calls)} : CallCount(s) = 1

(***************************************************************************)
(* Metric scorer.  Timing values are in milliseconds; CLS, a ratio, is     *)
(* kept in thousandths (0.1 is 100, 0.25 is 250).                          *)
(***************************************************************************)
CWV_THRESHOLDS ==
    [lcp  |-> [good |-> 2500, poor |-> 4000],
     cls  |-> [good |-> 100,  poor |-> 250],
     tbt  |-> [good |-> 200,  poor |-> 600],
     fcp  |-> [good |-> 1800, poor |-> 3000],
     si   |-> [good |-> 3400, poor |-> 5800],
     ttfb |-> [good |-> 800,  poor |-> 1800],
     tti  |-> [good |-> 3800, poor |-> 7300]]

\* LIGHTHOUSE_WEIGHTS, in percent
LIGHTHOUSE_WEIGHTS ==
    [tbt |-> 30, lcp |-> 25, cls |-> 25, fcp |-> 10, si |-> 10,
     ttfb |-> 0, tti |-> 0]

Max(a, b) == IF a >= b THEN a ELSE b
Min(a, b) == IF a <= b THEN a ELSE b

\* Math.round(p / q) for q > 0: the nearest integer, halves towards +infinity
Round(p, q) == (2 * p + q) \div (2 * q)

getMetricStatus(metric, value) ==
    LET threshold == CWV_THRESHOLDS[metric] IN
    IF value <= threshold.good THEN "good"
    ELSE IF value <= threshold.poor THEN "needs-improvement"
    ELSE "poor"

calculateMetricScore(metric, value) ==
    LET threshold == CWV_THRESHOLDS[metric]
        good  == threshold.good
        poor  == threshold.poor
        range == poor - good
    IN  IF value <= good
           \* Math.round(90 + (1 - value / good) * 10)
           THEN Round(100 * good - 10 * value, good)
        ELSE IF value >= poor
           \* Math.max(0, Math.round(49 - (value - poor) / poor * 49))
           THEN Max(0, Round(98 * poor - 49 * value, poor))
           \* Math.round(90 - (value - good) / range * 40)
        ELSE Round(90 * range - 40 * (value - good), range)

NoMetricData ==
    [present |-> FALSE, value |-> 0, score |-> 0, weight |-> 0,
     weightedScore |-> 0, status |-> "none",
     threshold |-> [good |-> 0, poor |-> 0]]

\* createMetricData; weight is in percent and weightedScore in hundredths
createMetricData(metric, input) ==
    IF ~input.defined THEN NoMetricData
    ELSE [present       |-> TRUE,
          value         |-> input.v,
          score         |-> calculateMetricScore(metric, input.v),
          weight        |-> LIGHTHOUSE_WEIGHTS[metric],
          weightedScore |-> calculateMetricScore(metric, input.v)
                               * LIGHTHOUSE_WEIGHTS[metric],
          status        |-> getMetricStatus(metric, input.v),
          threshold     |-> CWV_THRESHOLDS[metric]]

MaxMetricValue == 15000
NegMetricRange == 3

RunIdle ==
    /\ configUrl = [scheme |-> "https", host |-> "site.example"]
    /\ configTimeout = GetPageTimeout
    /\ progress = <<>>
    /\ pc = "idle"
    /\ browser = "null"
    /\ calls = <<>>
    /\ navLog = <<>>
    /\ resolvedUrl = NoUrl
    /\ received = [r \in Recipients |-> NoUrl]
    /\ thrownBy = "none"
    /\ completion = [kind |-> "running", error |-> NoError, value |-> NoReport]
    /\ outcome = "pending"
    /\ error = NoError
    /\ report = NoReport
    /\ closeCalls = 0

InitMetric ==
    /\ RunIdle /\ ScoreIdle
    /\ mPc = "input"
    /\ mMetric \in {"lcp", "cls", "tbt", "fcp", "si", "ttfb", "tti"}
    \* audits[id]?.numericValue: a number, or undefined when the audit is absent
    /\ mValue \in [defined : {TRUE}, v : (0 - NegMetricRange)..MaxMetricValue]
                     \cup {[defined |-> FALSE, v |-> 0]}
    /\ mData = NoMetricData

CreateMetricData ==
    /\ mPc = "input"
    /\ mData' = createMetricData(mMetric, mValue)
    /\ mPc' = "created"
    /\ UNCHANGED <<mMetric, mValue, runVars, scoreVars>>

SpecMetric == InitMetric /\ [][CreateMetricData]_vars

\* C8: the status is "good" when v <= good, "poor" when v >= poor (v equal
\* to the poor threshold included) and "needs-improvement" otherwise.
C8_StatusByThresholds ==
    (mPc = "created" /\ mData.present) =>
        mData.status =
            IF mData.value <= CWV_THRESHOLDS[mMetric].good THEN "good"
            ELSE IF mData.value >= CWV_THRESHOLDS[mMetric].poor THEN "poor"
            ELSE "needs-improvement"

\* C9: for a non-negative value the score is in 0..100 and agrees with the
\* status: "good" with a score >= 90 (90 at v = good), "poor" with a score
\* <= 49 (also at v = poor), "needs-improvement" with an interpolated score
\* from 90 down to 50.
C9_StatusScoreConsistent ==
    (mPc = "created" /\ mData.present /\ mData.value >= 0) =>
        /\ mData.score \in 0..100
        /\ mData.status = "good" => mData.score >= 90
        /\ mData.value = CWV_THRESHOLDS[mMetric].good => mData.score = 90
        /\ mData.status = "poor" => mData.score <= 49
        /\ mData.value = CWV_THRESHOLDS[mMetric].poor => mData.score <= 49
        /\ mData.status = "needs-improvement" =>
              (mData.score >= 50 /\ mData.score <= 90)

(***************************************************************************)
(* Analyzer results read by the score calculators.  Each analyzer's result *)
(* is a record of the fields the calculators read (lists by their length   *)
(* or by the number of entries that pass the filter); present = FALSE is   *)
(* report.details.<analyzer> being undefined.  The average rating is in    *)
(* tenths of a star.                                                       *)
(***************************************************************************)
MaxCount      == 6      \* missing alt texts, broken links, headers, profiles,
                        \* directories, linked review platforms
MaxFailed     == 21     \* failed WCAG audits of one level
RawScoreStep  == 5      \* resolution of a Lighthouse category score, in 1/1000
RatingStep    == 5      \* grid of the average rating in paired inputs, 1/10 star
MaxRatingTenths == 50   \* ratings above 5 stars are rejected by the scanner

RawScores ==
    {[isNull |-> TRUE, milli |-> 0]}
        \cup {[isNull |-> FALSE, milli |-> m] :
                m \in {k * RawScoreStep : k \in 0..(1000 \div RawScoreStep)}}

\* LighthouseScanner.run getScore: Math.round((score ?? 0) * 100)
getScoreUnscaled(raw) == IF raw.isNull THEN 0 ELSE raw.milli

getScore(raw) == IF raw.isNull THEN 0 ELSE Round(raw.milli, 10)

Fundamentals(rawPerf, rawAcc) ==
    [present |-> TRUE, performance |-> getScore(rawPerf),
     accessibility |-> getScore(rawAcc)]

AccessibilityDomain ==
    [present : {TRUE}, failedA : 0..MaxFailed, failedAA : 0..MaxCount]

\* extractMeta: titleLengthOk / descriptionLengthOk are false for a missing
\* title / description (length 0)
SeoDomain ==
    {s \in [present : {TRUE}, hasTitle : BOOLEAN, titleLengthOk : BOOLEAN,
            hasDescription : BOOLEAN, descriptionLengthOk : BOOLEAN,
            h1Count : 0..2, structureOk : BOOLEAN, isThinContent : BOOLEAN,
            missingAlt : 0..MaxCount, brokenLinks : 0..MaxCount,
            sitemapExists : BOOLEAN, robotsExists : BOOLEAN] :
        /\ s.titleLengthOk => s.hasTitle
        /\ s.descriptionLengthOk => s.hasDescription}

SocialDomain ==
    [present : {TRUE}, ogTitle : BOOLEAN, ogDescription : BOOLEAN,
     ogImage : BOOLEAN, twitterCard : BOOLEAN, profileCount : 0..MaxCount]

\* report.details.tech.security
SecurityDomain ==
    [present : {TRUE}, isHTTPS : BOOLEAN, hasHSTS : BOOLEAN,
     mixedContent : BOOLEAN, presentHeaders : 0..MaxCount,
     hasPrivacyPolicy : BOOLEAN, hasCookieBanner : BOOLEAN]

\* nap: napConsistency undefined ("absent"), or its consistent flag
LocalPresenceDomain ==
    [present : {TRUE}, gbpExists : BOOLEAN, mapsListed : BOOLEAN,
     nap : {"absent", "consistent", "inconsistent"}, listedDirs : 0..MaxCount,
     hasPhones : BOOLEAN, hasAddresses : BOOLEAN]

\* report.details.local (LocalScanner)
LocalDomain ==
    [present : {TRUE}, hasPhones : BOOLEAN, hasEmails : BOOLEAN,
     hasAddresses : BOOLEAN]

\* ReviewsScanner.run: averageRating is Math.round(rating * 10) / 10 of a
\* rating that is 0 or within (0, 5]
ReviewsDomain ==
    [present : {TRUE}, platformsLinked : 0..MaxCount,
     websiteShowsReviews : BOOLEAN, testimonialPage : BOOLEAN,
     ratingTenths : 0..MaxRatingTenths]

\* report.details.advertising, report.details.ecommerce
AdvertisingDomain ==
    [present : {TRUE}, retargeting : BOOLEAN, paidSearch : BOOLEAN,
     socialAds : BOOLEAN]
EcommerceDomain ==
    [present : {TRUE}, hasEcommerce : BOOLEAN, platformDetected : BOOLEAN,
     hasProcessors : BOOLEAN, sslOnCheckout : BOOLEAN, productSchema : BOOLEAN]

(***************************************************************************)
(* The analyzer results the calculators are applied to.  One or two        *)
(* analyzers range over their whole domain while the others are all        *)
(* absent, all present and empty-handed, or all present with every signal. *)
(***************************************************************************)
Profiles == {"absent", "empty", "full"}

ProfileReport(p) ==
    LET FundamentalsAbsent == [present |-> FALSE, performance |-> 0, accessibility |-> 0]
        AccessibilityAbsent == [present |-> FALSE, failedA |-> 0, failedAA |-> 0]
        SeoAbsent ==
            [present |-> FALSE, hasTitle |-> FALSE, titleLengthOk |-> FALSE,
             hasDescription |-> FALSE, descriptionLengthOk |-> FALSE, h1Count |-> 0,
             structureOk |-> FALSE, isThinContent |-> FALSE, missingAlt |-> 0,
             brokenLinks |-> 0, sitemapExists |-> FALSE, robotsExists |-> FALSE]
        SeoEmpty == [SeoAbsent EXCEPT !.present = TRUE, !.isThinContent = TRUE]
        SeoFull ==
            [present |-> TRUE, hasTitle |-> TRUE, titleLengthOk |-> TRUE,
             hasDescription |-> TRUE, descriptionLengthOk |-> TRUE, h1Count |-> 1,
             structureOk |-> TRUE, isThinContent |-> FALSE, missingAlt |-> 0,
             brokenLinks |-> 0, sitemapExists |-> TRUE, robotsExists |-> TRUE]
        SocialAbsent ==
            [present |-> FALSE, ogTitle |-> FALSE, ogDescription |-> FALSE,
             ogImage |-> FALSE, twitterCard |-> FALSE, profileCount |-> 0]
        SocialEmpty == [SocialAbsent EXCEPT !.present = TRUE]
        SocialFull ==
            [present |-> TRUE, ogTitle |-> TRUE, ogDescription |-> TRUE,
             ogImage |-> TRUE, twitterCard |-> TRUE, profileCount |-> MaxCount]
        SecurityAbsent ==
            [present |-> FALSE, isHTTPS |-> FALSE, hasHSTS |-> FALSE,
             mixedContent |-> FALSE, presentHeaders |-> 0,
             hasPrivacyPolicy |-> FALSE, hasCookieBanner |-> FALSE]
        SecurityEmpty == [SecurityAbsent EXCEPT !.present = TRUE, !.mixedContent = TRUE]
        SecurityFull ==
            [present |-> TRUE, isHTTPS |-> TRUE, hasHSTS |-> TRUE,
             mixedContent |-> FALSE, presentHeaders |-> MaxCount,
             hasPrivacyPolicy |-> TRUE, hasCookieBanner |-> TRUE]
        LocalPresenceAbsent ==
            [present |-> FALSE, gbpExists |-> FALSE, mapsListed |-> FALSE,
             nap |-> "absent", listedDirs |-> 0, hasPhones |-> FALSE,
             hasAddresses |-> FALSE]
        LocalPresenceEmpty == [LocalPresenceAbsent EXCEPT !.present = TRUE]
        LocalPresenceFull ==
            [present |-> TRUE, gbpExists |-> TRUE, mapsListed |-> TRUE,
             nap |-> "consistent", listedDirs |-> MaxCount, hasPhones |-> TRUE,
             hasAddresses |-> TRUE]
        LocalAbsent ==
            [present |-> FALSE, hasPhones |-> FALSE, hasEmails |-> FALSE,
             hasAddresses |-> FALSE]
        LocalEmpty == [LocalAbsent EXCEPT !.present = TRUE]
        LocalFull ==
            [present |-> TRUE, hasPhones |-> TRUE, hasEmails |-> TRUE,
             hasAddresses |-> TRUE]
        ReviewsAbsent ==
            [present |-> FALSE, platformsLinked |-> 0, websiteShowsReviews |-> FALSE,
             testimonialPage |-> FALSE, ratingTenths |-> 0]
        ReviewsEmpty == [ReviewsAbsent EXCEPT !.present = TRUE]
        ReviewsFull ==
            [present |-> TRUE, platformsLinked |-> MaxCount,
             websiteShowsReviews |-> TRUE, testimonialPage |-> TRUE,
             ratingTenths |-> MaxRatingTenths]
        AdvertisingAbsent ==
            [present |-> FALSE, retargeting |-> FALSE, paidSearch |-> FALSE,
             socialAds |-> FALSE]
        AdvertisingFull ==
            [present |-> TRUE, retargeting |-> TRUE, paidSearch |-> TRUE,
             socialAds |-> TRUE]
        EcommerceAbsent ==
            [present |-> FALSE, hasEcommerce |-> FALSE, platformDetected |-> FALSE,
             hasProcessors |-> FALSE, sslOnCheckout |-> FALSE, productSchema |-> FALSE]
        EcommerceFull ==
            [present |-> TRUE, hasEcommerce |-> TRUE, platformDetected |-> TRUE,
             hasProcessors |-> TRUE, sslOnCheckout |-> TRUE, productSchema |-> TRUE]
    IN
    CASE p = "absent" ->
           [fundamentals |-> FundamentalsAbsent,
            accessibility |-> AccessibilityAbsent, seo |-> SeoAbsent,
            social |-> SocialAbsent, security |-> SecurityAbsent,
            localPresence |-> LocalPresenceAbsent, local |-> LocalAbsent,
            reviews |-> ReviewsAbsent, advertising |-> AdvertisingAbsent,
            ecommerce |-> EcommerceAbsent]
      [] p = "empty" ->
           [fundamentals |-> Fundamentals([isNull |-> TRUE, milli |-> 0],
                                          [isNull |-> TRUE, milli |-> 0]),
            accessibility |-> [AccessibilityAbsent EXCEPT !.present = TRUE],
            seo |-> SeoEmpty, social |-> SocialEmpty,
            security |-> SecurityEmpty, localPresence |-> LocalPresenceEmpty,
            local |-> LocalEmpty, reviews |-> ReviewsEmpty,
            advertising |-> [AdvertisingAbsent EXCEPT !.present = TRUE],
            ecommerce |-> [EcommerceAbsent EXCEPT !.present = TRUE]]
      [] OTHER ->
           [fundamentals |-> Fundamentals([isNull |-> FALSE, milli |-> 1000],
                                          [isNull |-> FALSE, milli |-> 1000]),
            accessibility |-> [AccessibilityAbsent EXCEPT !.present = TRUE],
            seo |-> SeoFull, social |-> SocialFull, security |-> SecurityFull,
            localPresence |-> LocalPresenceFull, local |-> LocalFull,
            reviews |-> ReviewsFull, advertising |-> AdvertisingFull,
            ecommerce |-> EcommerceFull]

SlicedReport(r) ==
    \E p \in Profiles :
        \/ \E x \in SeoDomain : r = [ProfileReport(p) EXCEPT !.seo = x]
        \/ \E x \in SocialDomain : r = [ProfileReport(p) EXCEPT !.social = x]
        \/ \E x \in SecurityDomain :
             r = [ProfileReport(p) EXCEPT !.security = x]
        \/ \E x \in LocalPresenceDomain :
             r = [ProfileReport(p) EXCEPT !.localPresence = x]
        \/ \E x \in LocalDomain : r = [ProfileReport(p) EXCEPT !.local = x]
        \/ \E x \in ReviewsDomain : r = [ProfileReport(p) EXCEPT !.reviews = x]
        \/ \E x \in AccessibilityDomain :
             r = [ProfileReport(p) EXCEPT !.accessibility = x]
        \/ \E rp \in RawScores :
             \E ra \in {x \in RawScores : x.isNull \/ x.milli % 100 = 0} :
                r = [ProfileReport(p) EXCEPT
                       !.fundamentals = Fundamentals(rp, ra)]
        \/ \E ra \in RawScores :
             \E rp \in {x \in RawScores : x.isNull \/ x.milli % 100 = 0} :
                r = [ProfileReport(p) EXCEPT
                       !.fundamentals = Fundamentals(rp, ra)]

\* social and reviews results in every combination (both feed trust)
PairedReport(r) ==
    \* the ratings on a coarser grid
    LET ReviewsCoarse == {x \in ReviewsDomain : x.ratingTenths % RatingStep = 0}
    IN
    \E x \in SocialDomain : \E y \in ReviewsCoarse :
        r = [ProfileReport("empty") EXCEPT !.social = x, !.reviews = y]

(***************************************************************************)
(* Score breakdowns (generate<Category>Breakdown).  A breakdown keeps the  *)
(* score, the base score and the points of the entries pushed on the       *)
(* deductions and bonuses lists, in order.  scale is the number of units   *)
(* per point: 1, or 10 where the average rating makes the points           *)
(* fractional.                                                             *)
(***************************************************************************)
If(c, pts) == IF c THEN pts ELSE 0
Entry(c, pts) == IF c THEN <<pts>> ELSE <<>>

Breakdown(cat, sc, base, ded, bon) ==
    [category |-> cat, score |-> sc, scale |-> 1, maxScore |-> 100,
     baseScore |-> base, deductions |-> ded, bonuses |-> bon]

createEmptyBreakdown(cat) == Breakdown(cat, 0, 0, <<>>, <<>>)

\* report.details?.fundamentals?.scores?.performance || 0
generatePerformanceBreakdown(r) ==
    Breakdown("performance",
              IF r.fundamentals.present THEN r.fundamentals.performance ELSE 0,
              100, <<>>, <<>>)

generateSeoBreakdown(r) ==
    LET seo == r.seo
        altPenalty  == Min(10, seo.missingAlt * 2)
        linkPenalty == Min(15, seo.brokenLinks * 3)
        score ==
            100
            - (IF ~seo.hasTitle THEN 15
               ELSE IF ~seo.titleLengthOk THEN 5 ELSE 0)
            - (IF ~seo.hasDescription THEN 10
               ELSE IF ~seo.descriptionLengthOk THEN 3 ELSE 0)
            - (IF seo.h1Count = 0 THEN 10
               ELSE IF seo.h1Count > 1 THEN 5 ELSE 0)
            - If(~seo.structureOk, 5)
            - If(seo.isThinContent, 10)
            - If(seo.missingAlt > 0, altPenalty)
            - If(seo.brokenLinks > 0, linkPenalty)
            - If(~seo.sitemapExists, 5)
            - If(~seo.robotsExists, 3)
        deductions ==
            (IF ~seo.hasTitle THEN <<15>>
             ELSE IF ~seo.titleLengthOk THEN <<5>> ELSE <<>>)
            \o (IF ~seo.hasDescription THEN <<10>>
                ELSE IF ~seo.descriptionLengthOk THEN <<3>> ELSE <<>>)
            \o (IF seo.h1Count = 0 THEN <<10>>
                ELSE IF seo.h1Count > 1 THEN <<5>> ELSE <<>>)
            \o Entry(~seo.structureOk, 5)
            \o Entry(seo.isThinContent, 10)
            \o Entry(seo.missingAlt > 0, altPenalty)
            \o Entry(seo.brokenLinks > 0, linkPenalty)
            \o Entry(~seo.sitemapExists, 5)
            \o Entry(~seo.robotsExists, 3)
        bonuses ==
            Entry(seo.hasTitle /\ seo.titleLengthOk, 5)
            \o Entry(seo.sitemapExists, 5)
    IN  IF ~seo.present THEN createEmptyBreakdown("seo")
        ELSE Breakdown("seo", Max(0, Min(100, score)), 100,
                       deductions, bonuses)

\* the score is the Lighthouse accessibility score; the listed points do not
\* enter it
generateAccessibilityBreakdown(r) ==
    LET score == IF r.fundamentals.present
                    THEN r.fundamentals.accessibility ELSE 0
        acc == r.accessibility
    IN  Breakdown("accessibility", score, 100,
                  Entry(acc.present /\ acc.failedA > 0, acc.failedA * 5)
                  \o Entry(acc.present /\ acc.failedAA > 0, acc.failedAA * 3),
                  Entry(score >= 90, 10))

generateSecurityBreakdown(r) ==
    LET security == r.security
        headerPoints == Min(20, security.presentHeaders * 4)
        score ==
            If(security.isHTTPS, 40)
            + If(security.hasHSTS, 10)
            + If(~security.mixedContent, 10)
            + If(security.presentHeaders > 0, headerPoints)
            + If(security.hasPrivacyPolicy, 10)
            + If(security.hasCookieBanner, 10)
        bonuses ==
            Entry(security.isHTTPS, 40)
            \o Entry(security.hasHSTS, 10)
            \o Entry(~security.mixedContent, 10)
            \o Entry(security.presentHeaders > 0, headerPoints)
            \o Entry(security.hasPrivacyPolicy, 10)
            \o Entry(security.hasCookieBanner, 10)
        deductions ==
            Entry(~security.isHTTPS, 40)
            \o Entry(security.mixedContent, 10)
            \o Entry(~security.hasPrivacyPolicy, 10)
    IN  IF ~security.present THEN createEmptyBreakdown("security")
        ELSE Breakdown("security", Min(100, score), 0, deductions, bonuses)

generateSocialBreakdown(r) ==
    LET social == r.social
        profilePoints == Min(35, social.profileCount * 7)
        score ==
            If(social.ogTitle, 15) + If(social.ogDescription, 15)
            + If(social.ogImage, 20) + If(social.twitterCard, 15)
            + If(social.profileCount > 0, profilePoints)
        bonuses ==
            Entry(social.ogTitle, 15) \o Entry(social.ogDescription, 15)
            \o Entry(social.ogImage, 20) \o Entry(social.twitterCard, 15)
            \o Entry(social.profileCount > 0, profilePoints)
        deductions ==
            Entry(~social.ogTitle, 15) \o Entry(~social.ogDescription, 15)
            \o Entry(~social.ogImage, 20)
    IN  IF ~social.present THEN createEmptyBreakdown("social")
        ELSE Breakdown("social", Min(100, score), 0, deductions, bonuses)

generateLocalPresenceBreakdown(r) ==
    LET lp == r.localPresence
        local == r.local
        dirPoints == Min(20, lp.listedDirs * 4)
        lpScore ==
            If(lp.gbpExists, 25) + If(lp.mapsListed, 15)
            + If(lp.nap = "consistent", 20)
            + If(lp.listedDirs > 0, dirPoints)
            + If(lp.hasPhones, 10) + If(lp.hasAddresses, 10)
        lpBonuses ==
            Entry(lp.gbpExists, 25) \o Entry(lp.mapsListed, 15)
            \o Entry(lp.nap = "consistent", 20)
            \o Entry(lp.listedDirs > 0, dirPoints)
            \o Entry(lp.hasPhones, 10) \o Entry(lp.hasAddresses, 10)
        lpDeductions ==
            Entry(~lp.gbpExists, 25) \o Entry(lp.nap = "inconsistent", 20)
        localScore == If(local.hasPhones, 30) + If(local.hasAddresses, 40)
        localBonuses ==
            Entry(local.hasPhones, 30) \o Entry(local.hasAddresses, 40)
    IN  IF ~lp.present /\ ~local.present
           THEN createEmptyBreakdown("localPresence")
        ELSE IF lp.present
           THEN Breakdown("localPresence", Min(100, lpScore), 0,
                          lpDeductions, lpBonuses)
        ELSE Breakdown("localPresence", Min(100, localScore), 0,
                       <<>>, localBonuses)

\* points in tenths: the rating bonus is Math.min(20, averageRating * 4)
generateReviewsBreakdown(r) ==
    LET reviews == r.reviews
        platformPoints == Min(400, reviews.platformsLinked * 100)
        ratingPoints   == Min(200, reviews.ratingTenths * 4)
        score ==
            If(reviews.platformsLinked > 0, platformPoints)
            + If(reviews.websiteShowsReviews, 250)
            + If(reviews.testimonialPage, 150)
            + If(reviews.ratingTenths > 0, ratingPoints)
        bonuses ==
            Entry(reviews.platformsLinked > 0, platformPoints)
            \o Entry(reviews.websiteShowsReviews, 250)
            \o Entry(reviews.testimonialPage, 150)
            \o Entry(reviews.ratingTenths > 0, ratingPoints)
        deductions == Entry(reviews.platformsLinked = 0, 400)
    IN  IF ~reviews.present
           THEN [createEmptyBreakdown("reviews") EXCEPT !.scale = 10]
        ELSE [Breakdown("reviews", Min(1000, score), 0, deductions, bonuses)
                EXCEPT !.scale = 10]

generateVisibilityBreakdown(r) ==
    LET seo == r.seo
        local == r.localPresence
        linkPenalty == Min(15, seo.brokenLinks * 3)
        seoPart ==
            (IF ~seo.hasTitle THEN 15
             ELSE IF ~seo.titleLengthOk THEN 5 ELSE 0)
            + If(~seo.hasDescription, 10)
            + (IF seo.h1Count = 0 THEN 10
               ELSE IF seo.h1Count > 1 THEN 5 ELSE 0)
            + If(seo.isThinContent, 10)
            + If(seo.brokenLinks > 0, linkPenalty)
            + If(~seo.sitemapExists, 5)
        seoDeductions ==
            (IF ~seo.hasTitle THEN <<15>>
             ELSE IF ~seo.titleLengthOk THEN <<5>> ELSE <<>>)
            \o Entry(~seo.hasDescription, 10)
            \o (IF seo.h1Count = 0 THEN <<10>>
                ELSE IF seo.h1Count > 1 THEN <<5>> ELSE <<>>)
            \o Entry(seo.isThinContent, 10)
            \o Entry(seo.brokenLinks > 0, linkPenalty)
        seoBonuses == Entry(seo.sitemapExists, 5)
        localPart == If(~local.gbpExists, 10)
        localDeductions == Entry(~local.gbpExists, 10)
        localBonuses ==
            Entry(local.gbpExists, 10)
            \o Entry(local.hasPhones \/ local.hasAddresses, 5)
        score == 100 - If(seo.present, seoPart) - If(local.present, localPart)
    IN  IF ~seo.present /\ ~local.present
           THEN createEmptyBreakdown("visibility")
        ELSE Breakdown("visibility", Max(0, Min(100, score)), 100,
                (IF seo.present THEN seoDeductions ELSE <<>>)
                    \o (IF local.present THEN localDeductions ELSE <<>>),
                (IF seo.present THEN seoBonuses ELSE <<>>)
                    \o (IF local.present THEN localBonuses ELSE <<>>))

generateTrustBreakdown(r) ==
    LET social == r.social
        reviews == r.reviews
        profilePoints == Min(20, social.profileCount * 4)
        reviewPoints  == Min(24, reviews.platformsLinked * 8)
        \* Math.round(Math.min(12, averageRating * 2.4))
        ratingPoints  == Round(Min(1200, reviews.ratingTenths * 24), 100)
        socialBonuses ==
            Entry(social.ogTitle, 6) \o Entry(social.ogDescription, 6)
            \o Entry(social.ogImage, 8)
            \o Entry(social.profileCount > 0, profilePoints)
        socialPart ==
            If(social.ogTitle, 6) + If(social.ogDescription, 6)
            + If(social.ogImage, 8)
            + If(social.profileCount > 0, profilePoints)
        reviewsBonuses ==
            Entry(reviews.platformsLinked > 0, reviewPoints)
            \o Entry(reviews.websiteShowsReviews, 15)
            \o Entry(reviews.ratingTenths > 0, ratingPoints)
        reviewsPart ==
            If(reviews.platformsLinked > 0, reviewPoints)
            + If(reviews.websiteShowsReviews, 15)
            + If(reviews.ratingTenths > 0, ratingPoints)
        score == If(social.present, socialPart) + If(reviews.present, reviewsPart)
    IN  IF ~social.present /\ ~reviews.present
           THEN createEmptyBreakdown("trust")
        ELSE Breakdown("trust", Min(100, score), 0, <<>>,
                (IF social.present THEN socialBonuses ELSE <<>>)
                    \o (IF reviews.present THEN reviewsBonuses ELSE <<>>))

\* generateDetailedScores (legacy, seven categories)
generateDetailedScores(r) ==
    [performance   |-> generatePerformanceBreakdown(r),
     seo           |-> generateSeoBreakdown(r),
     accessibility |-> generateAccessibilityBreakdown(r),
     security      |-> generateSecurityBreakdown(r),
     social        |-> generateSocialBreakdown(r),
     localPresence |-> generateLocalPresenceBreakdown(r),
     reviews       |-> generateReviewsBreakdown(r)]

generateNewScoreBreakdowns(r) ==
    [performance   |-> generatePerformanceBreakdown(r),
     visibility    |-> generateVisibilityBreakdown(r),
     security      |-> generateSecurityBreakdown(r),
     accessibility |-> generateAccessibilityBreakdown(r),
     trust         |-> generateTrustBreakdown(r)]

(***************************************************************************)
(* Arithmetic of the JavaScript number type (IEEE 754 binary64) on the     *)
(* values the score calculators meet: doubles below 1024 that are whole    *)
(* multiples of 2^-60.  A double is the sequence of its seven base-1024    *)
(* digits, least significant first, the seventh being the integer part.    *)
(* Every operation is the exact result rounded to 53 significant bits,     *)
(* ties to even.                                                           *)
(***************************************************************************)
\* the n low digits of a, padded with zeros
Fix(a, n) ==
    IF Len(a) >= n THEN SubSeq(a, 1, n)
    ELSE a \o SubSeq([i \in 1..n |-> 0], 1, n - Len(a))

RECURSIVE CarryFrom(_, _, _)
CarryFrom(raw, i, c) ==
    IF i > Len(raw) THEN (IF c = 0 THEN <<>> ELSE <<c>>)
    ELSE <<(raw[i] + c) % 1024>>
             \o CarryFrom(raw, i + 1, (raw[i] + c) \div 1024)
Carry(raw) == CarryFrom(raw, 1, 0)

Bit(a, j) ==
    LET i == (j \div 10) + 1
    IN  ((IF i <= Len(a) THEN a[i] ELSE 0) \div 2^(j % 10)) % 2

\* round to nearest, ties to even, at 53 significant bits; inexact: nonzero
\* bits below the digits of a have been dropped already
RoundState == [a : Seq(Nat), inexact : BOOLEAN]
RoundBits[st \in RoundState] ==
    LET TopDigit(x) ==
            IF \A i \in 1..Len(x) : x[i] = 0 THEN 0
            ELSE CHOOSE i \in 1..Len(x) :
                    x[i] # 0 /\ \A j \in (i + 1)..Len(x) : x[j] = 0
        DigitBits(d) ==
            CHOOSE n \in 0..10 : d < 2^n /\ (n = 0 \/ d >= 2^(n - 1))
        BitLen(x) ==
            IF TopDigit(x) = 0 THEN 0
            ELSE 10 * (TopDigit(x) - 1) + DigitBits(x[TopDigit(x)])
        Sticky(x, j) ==
            \E i \in 1..Len(x) :
                /\ 10 * (i - 1) < j
                /\ IF 10 * i <= j THEN x[i] # 0
                   ELSE (x[i] % 2^(j - 10 * (i - 1))) # 0
        Truncate(x, k) ==
            SubSeq([i \in 1..Len(x) |->
                       IF 10 * i <= k THEN 0
                       ELSE IF 10 * (i - 1) >= k THEN x[i]
                       ELSE x[i] - (x[i] % 2^(k - 10 * (i - 1)))], 1, Len(x))
        AddBit(x, k) ==
            Carry([i \in 1..Len(x) |->
                     x[i] + IF i = (k \div 10) + 1 THEN 2^(k % 10) ELSE 0])
        k == BitLen(st.a) - 53
    IN  IF k <= 0 THEN st.a
        ELSE IF Bit(st.a, k - 1) = 1
                /\ (st.inexact \/ Sticky(st.a, k - 1) \/ Bit(st.a, k) = 1)
             THEN AddBit(Truncate(st.a, k), k)
             ELSE Truncate(st.a, k)
RoundDouble(a, inexact) == RoundBits[[a |-> a, inexact |-> inexact]]

Zero == <<0, 0, 0, 0, 0, 0, 0>>
FromInt(n) == <<0, 0, 0, 0, 0, 0, n>>

\* a + b
Operands == [a : Seq(Nat), b : Seq(Nat)]
Sum[st \in Operands] ==
    Fix(RoundDouble(Carry([i \in 1..7 |-> st.a[i] + st.b[i]]), FALSE), 7)
fadd(a, b) == Sum[[a |-> a, b |-> b]]
\* a * b: the exact product has 120 fraction bits
RECURSIVE ConvAt(_, _, _, _)
ConvAt(a, b, k, i) ==
    IF i > Len(a) THEN 0
    ELSE (IF k + 1 - i \in 1..Len(b) THEN a[i] * b[k + 1 - i] ELSE 0)
         + ConvAt(a, b, k, i + 1)
Times[st \in Operands] ==
    LET Product ==
            Carry([k \in 1..(Len(st.a) + Len(st.b) - 1) |->
                     ConvAt(st.a, st.b, k, 1)])
    IN  Fix(SubSeq(Fix(RoundDouble(Product, FALSE), 14), 7, 14), 7)
fmul(a, b) == Times[[a |-> a, b |-> b]]

\* a >= b and a - b, for digit sequences of one length
Geq(a, b) ==
    \A i \in 1..Len(a) :
        a[i] < b[i] => \E j \in (i + 1)..Len(a) : a[j] > b[j]
RECURSIVE SubFrom(_, _, _, _)
SubFrom(a, b, i, borrow) ==
    IF i > Len(a) THEN <<>>
    ELSE LET t == a[i] - b[i] - borrow IN
         <<IF t < 0 THEN t + 1024 ELSE t>>
             \o SubFrom(a, b, i + 1, IF t < 0 THEN 1 ELSE 0)

\* long division of the digits of x above i by the integer m, most
\* significant digit first: st.q and st.rem are the quotient digits and
\* the remainder so far
DivIntState == [x : Seq(Nat), m : Nat, i : Nat, rem : Nat, q : Seq(Nat)]
DivInt[st \in DivIntState] ==
    IF st.i = 0 THEN st
    ELSE LET cur == st.rem * 1024 + st.x[st.i]
         IN DivInt[[st EXCEPT !.i = st.i - 1, !.rem = cur % st.m,
                             !.q = <<cur \div st.m>> \o st.q]]

\* restoring division by a double y, one bit of the dividend st.x per step
\* from bit st.j down, st.n bits at a time: st.q and st.r are the quotient
\* and the remainder so far
DivState ==
    [x : Seq(Nat), y : Seq(Nat), j : Int, n : Nat, q : Seq(Nat), r : Seq(Nat)]
DivBits[st \in DivState] ==
    LET Double(x, bit) ==
            Fix(Carry([i \in 1..Len(x) |->
                         2 * x[i] + IF i = 1 THEN bit ELSE 0]), Len(x))
        r2 == Double(st.r, Bit(st.x, st.j))
        ge == Geq(r2, st.y)
    IN  IF st.n = 0 THEN st
        ELSE DivBits[[st EXCEPT !.j = st.j - 1, !.n = st.n - 1,
                          !.q = Double(st.q, IF ge THEN 1 ELSE 0),
                          !.r = IF ge THEN SubFrom(r2, st.y, 1, 0) ELSE r2]]
DivDigits[st \in DivState] ==
    IF st.j < 0 THEN st ELSE DivDigits[DivBits[[st EXCEPT !.n = 10]]]

\* a / b for b > 0: the quotient of a * 2^70 by b has 70 fraction bits
fdiv(a, b) ==
    LET Quotient(q, inexact) ==
            Fix(SubSeq(Fix(RoundDouble(Fix(q, 15), inexact), 15), 2, 8), 7)
    IN  IF \A i \in 1..6 : b[i] = 0
        THEN LET st == DivInt[[x |-> <<0>> \o a, m |-> b[7], i |-> 8,
                               rem |-> 0, q |-> <<>>]]
             IN Quotient(st.q, st.rem # 0)
        ELSE LET st == DivDigits[[x |-> Zero \o a, y |-> Fix(b, 15),
                                  j |-> 139, n |-> 0, q |-> Fix(<<>>, 15),
                                  r |-> Fix(<<>>, 15)]]
             IN Quotient(st.q, \E i \in 1..15 : st.r[i] # 0)

\* Math.round: the nearest integer, halves towards +infinity
HalfUp[a \in Seq(Nat)] == a[7] + IF a[6] >= 512 THEN 1 ELSE 0
MathRound(a) == HalfUp[a]

\* the double a decimal literal n / d of the source denotes
Literal(n, d) ==
    CASE n * 40 = d      -> <<616, 409, 614, 409, 614, 25, 0>>     \* 0.025
      [] n * 20 = d      -> <<208, 819, 204, 819, 204, 51, 0>>     \* 0.05
      [] n * 10 = d      -> <<416, 614, 409, 614, 409, 102, 0>>    \* 0.1
      [] n * 20 = 3 * d  -> <<608, 409, 614, 409, 614, 153, 0>>    \* 0.15
      [] n * 5 = d       -> <<832, 204, 819, 204, 819, 204, 0>>    \* 0.2
      [] n * 4 = d       -> <<0, 0, 0, 0, 0, 256, 0>>              \* 0.25
      [] n * 10 = 3 * d  -> <<192, 819, 204, 819, 204, 307, 0>>    \* 0.3
      [] n * 5 = 2 * d   -> <<640, 409, 614, 409, 614, 409, 0>>    \* 0.4
      [] n * 5 = 3 * d   -> <<384, 614, 409, 614, 409, 614, 0>>    \* 0.6
      [] n * 10 = 7 * d  -> <<768, 204, 819, 204, 819, 716, 0>>    \* 0.7
      [] OTHER           -> fdiv(FromInt(n), FromInt(d))

(***************************************************************************)
(* Category score calculators (legacy and new).  Scores are integers,      *)
(* except the reviews score, which is a double: the rating bonus           *)
(* averageRating * 4 is not rounded.                                       *)
(***************************************************************************)
calculateSeoScore(r) ==
    LET seo == r.seo
        score ==
            100
            - (IF ~seo.hasTitle THEN 15
               ELSE IF ~seo.titleLengthOk THEN 5 ELSE 0)
            - (IF ~seo.hasDescription THEN 10
               ELSE IF ~seo.descriptionLengthOk THEN 3 ELSE 0)
            - (IF seo.h1Count = 0 THEN 10
               ELSE IF seo.h1Count > 1 THEN 5 ELSE 0)
            - If(~seo.structureOk, 5)
            - If(seo.isThinContent, 10)
            - If(seo.missingAlt > 0, Min(10, seo.missingAlt * 2))
            - If(seo.brokenLinks > 0, Min(15, seo.brokenLinks * 3))
            - If(~seo.sitemapExists, 5)
            - If(~seo.robotsExists, 3)
    IN  IF ~seo.present THEN 0 ELSE Max(0, Min(100, score))

calculateSocialScore(r) ==
    LET social == r.social
        score ==
            If(social.ogTitle, 15) + If(social.ogDescription, 15)
            + If(social.ogImage, 20) + If(social.twitterCard, 15)
            + Min(35, social.profileCount * 7)
    IN  IF ~social.present THEN 0 ELSE Min(100, score)

calculateSecurityScoreNoHeaderCap(r) ==
    LET security == r.security
        score ==
            If(security.isHTTPS, 40) + If(security.hasHSTS, 10)
            + If(~security.mixedContent, 10)
            + security.presentHeaders * 4
            + If(security.hasPrivacyPolicy, 10)
            + If(security.hasCookieBanner, 10)
    IN  IF ~security.present THEN 0 ELSE Min(100, score)

calculateSecurityScore(r) ==
    LET security == r.security
        score ==
            If(security.isHTTPS, 40) + If(security.hasHSTS, 10)
            + If(~security.mixedContent, 10)
            + Min(20, security.presentHeaders * 4)
            + If(security.hasPrivacyPolicy, 10)
            + If(security.hasCookieBanner, 10)
    IN  IF ~security.present THEN 0 ELSE Min(100, score)

calculateLocalPresenceScore(r) ==
    LET lp == r.localPresence
        local == r.local
        lpScore ==
            If(lp.gbpExists, 25) + If(lp.mapsListed, 15)
            + If(lp.nap = "consistent", 20)
            + Min(20, lp.listedDirs * 4)
            + If(lp.hasPhones, 10) + If(lp.hasAddresses, 10)
        localScore ==
            If(local.hasPhones, 30) + If(local.hasEmails, 30)
            + If(local.hasAddresses, 40)
    IN  IF ~lp.present /\ ~local.present THEN 0
        ELSE IF lp.present THEN Min(100, lpScore)
        ELSE Min(100, localScore)

\* overall.averageRating: Math.round(averageRating * 10) / 10
averageRating(reviews) == fdiv(FromInt(reviews.ratingTenths), FromInt(10))

\* Math.min of two doubles
Smaller[st \in Operands] == IF Geq(st.a, st.b) THEN st.b ELSE st.a
MathMin(a, b) == Smaller[[a |-> a, b |-> b]]

calculateReviewsScore(r) ==
    LET reviews == r.reviews
        base ==
            Min(40, reviews.platformsLinked * 10)
            + If(reviews.websiteShowsReviews, 25)
            + If(reviews.testimonialPage, 15)
        score ==
            IF reviews.ratingTenths > 0
               THEN fadd(FromInt(base),
                         MathMin(FromInt(20),
                                 fmul(averageRating(reviews), FromInt(4))))
               ELSE FromInt(base)
    IN  IF ~reviews.present THEN Zero ELSE MathMin(FromInt(100), score)

calculateAdvertisingScore(r) ==
    LET advertising == r.advertising
        score ==
            If(advertising.retargeting, 40) + If(advertising.paidSearch, 30)
            + If(advertising.socialAds, 30)
    IN  IF ~advertising.present THEN 0 ELSE Min(100, score)

calculateEcommerceScore(r) ==
    LET ecommerce == r.ecommerce
        score ==
            If(ecommerce.platformDetected, 20)
            + If(ecommerce.hasProcessors, 30)
            + If(ecommerce.sslOnCheckout, 30)
            + If(ecommerce.productSchema, 20)
    IN  IF ~ecommerce.present \/ ~ecommerce.hasEcommerce THEN 0
        ELSE Min(100, score)

calculateCategoryScoresOneLighthouseScore(r) ==
    [defined |-> {"overall", "performance", "seo", "social", "accessibility",
                  "localPresence", "reviews", "advertising", "ecommerce",
                  "security"},
     overall       |-> 0,
     performance   |-> IF r.fundamentals.present
                          THEN r.fundamentals.performance ELSE 0,
     seo           |-> calculateSeoScore(r),
     social        |-> calculateSocialScore(r),
     accessibility |-> IF r.fundamentals.present
                          THEN r.fundamentals.performance ELSE 0,
     localPresence |-> calculateLocalPresenceScore(r),
     reviews       |-> calculateReviewsScore(r),
     advertising   |-> calculateAdvertisingScore(r),
     ecommerce     |-> calculateEcommerceScore(r),
     security      |-> calculateSecurityScore(r)]

\* defined: the keys of the object that hold a number
calculateCategoryScores(r) ==
    [defined |-> {"overall", "performance", "seo", "social", "accessibility",
                  "localPresence", "reviews", "advertising", "ecommerce",
                  "security"},
     overall       |-> 0,
     performance   |-> IF r.fundamentals.present
                          THEN r.fundamentals.performance ELSE 0,
     seo           |-> calculateSeoScore(r),
     social        |-> calculateSocialScore(r),
     accessibility |-> IF r.fundamentals.present
                          THEN r.fundamentals.accessibility ELSE 0,
     localPresence |-> calculateLocalPresenceScore(r),
     reviews       |-> calculateReviewsScore(r),
     advertising   |-> calculateAdvertisingScore(r),
     ecommerce     |-> calculateEcommerceScore(r),
     security      |-> calculateSecurityScore(r)]

\* Object.entries(SCORE_WEIGHTS), in insertion order
SCORE_WEIGHTS ==
    <<[key |-> "performance",   weight |-> Literal(25, 100)],
      [key |-> "seo",           weight |-> Literal(20, 100)],
      [key |-> "accessibility", weight |-> Literal(15, 100)],
      [key |-> "social",        weight |-> Literal(10, 100)],
      [key |-> "security",      weight |-> Literal(15, 100)],
      [key |-> "localPresence", weight |-> Literal(5, 100)],
      [key |-> "reviews",       weight |-> Literal(5, 100)],
      [key |-> "advertising",   weight |-> Literal(25, 1000)],
      [key |-> "ecommerce",     weight |-> Literal(25, 1000)]>>

\* the loop of calculateOverallScore: st.i is the next entry, st.weightedSum
\* and st.totalWeight the sums so far
calculateOverallScore(scores) ==
    LET \* scoreMap[key] as a double
        ScoreNumber(key) ==
            IF key = "reviews" THEN scores.reviews ELSE FromInt(scores[key])
        Weigh[st \in [i : Nat, weightedSum : Seq(Nat),
                      totalWeight : Seq(Nat)]] ==
            IF st.i > Len(SCORE_WEIGHTS) THEN st
            ELSE LET e == SCORE_WEIGHTS[st.i] IN
                 IF e.key \in scores.defined
                 THEN Weigh[[i |-> st.i + 1,
                             weightedSum |->
                                 fadd(st.weightedSum,
                                      fmul(ScoreNumber(e.key),
                                           e.weight)),
                             totalWeight |-> fadd(st.totalWeight, e.weight)]]
                 ELSE Weigh[[st EXCEPT !.i = st.i + 1]]
        acc == Weigh[[i |-> 1, weightedSum |-> Zero, totalWeight |-> Zero]]
    IN  IF acc.totalWeight = Zero THEN 0
        ELSE MathRound(fdiv(acc.weightedSum, acc.totalWeight))

NewScoreWeightsEqual ==
    [performance |-> Literal(20, 100), visibility |-> Literal(20, 100),
     security |-> Literal(20, 100), accessibility |-> Literal(20, 100),
     trust |-> Literal(20, 100)]

NEW_SCORE_WEIGHTS ==
    [performance |-> Literal(25, 100), visibility |-> Literal(25, 100),
     security |-> Literal(20, 100), accessibility |-> Literal(15, 100),
     trust |-> Literal(15, 100)]

\* the inline weights of visibility and trust
VisibilityWeights == [seo |-> Literal(7, 10), local |-> Literal(3, 10)]
TrustWeights == [social |-> Literal(4, 10), reviews |-> Literal(6, 10)]

calculateNewScores(r) ==
    LET performance == IF r.fundamentals.present
                          THEN r.fundamentals.performance ELSE 0
        accessibility == IF r.fundamentals.present
                            THEN r.fundamentals.accessibility ELSE 0
        seoScore == calculateSeoScore(r)
        localScore == calculateLocalPresenceScore(r)
        visibility ==
            MathRound(fadd(fmul(FromInt(seoScore), VisibilityWeights.seo),
                           fmul(FromInt(localScore), VisibilityWeights.local)))
        security == calculateSecurityScore(r)
        socialScore == calculateSocialScore(r)
        reviewsScore == calculateReviewsScore(r)
        trust ==
            MathRound(fadd(fmul(FromInt(socialScore), TrustWeights.social),
                           fmul(reviewsScore, TrustWeights.reviews)))
        overall ==
            MathRound(
                fadd(fadd(fadd(fadd(
                    fmul(FromInt(performance), NEW_SCORE_WEIGHTS.performance),
                    fmul(FromInt(visibility), NEW_SCORE_WEIGHTS.visibility)),
                    fmul(FromInt(security), NEW_SCORE_WEIGHTS.security)),
                    fmul(FromInt(accessibility),
                         NEW_SCORE_WEIGHTS.accessibility)),
                    fmul(FromInt(trust), NEW_SCORE_WEIGHTS.trust)))
    IN  [overall |-> overall, performance |-> performance,
         visibility |-> visibility, security |-> security,
         accessibility |-> accessibility, trust |-> trust]

LegacyCategories == {"performance", "seo", "accessibility", "security",
                     "social", "localPresence", "reviews"}
NewCategories == {"performance", "visibility", "security", "accessibility",
                  "trust"}

NoScoreOutput == [computed |-> FALSE]

InitScore ==
    /\ RunIdle /\ MetricIdle
    /\ sPc = "input"
    /\ (SlicedReport(sReport) \/ PairedReport(sReport))
    /\ sOut = NoScoreOutput

\* generateSummary's generateDetailedScores and generateNewScoreBreakdowns,
\* both applied to the same report
GenerateBreakdowns ==
    /\ sPc = "input"
    /\ sOut' = [computed |-> TRUE,
                detailed |-> generateDetailedScores(sReport),
                breakdowns |-> generateNewScoreBreakdowns(sReport)]
    /\ sPc' = "scored"
    /\ UNCHANGED <<sReport, runVars, metricVars>>

SpecScore == InitScore /\ [][GenerateBreakdowns]_vars

RECURSIVE SeqSum(_)
SeqSum(seq) == IF seq = <<>> THEN 0 ELSE Head(seq) + SeqSum(Tail(seq))

\* C10: every breakdown of every generator has a score within 0..100, also
\* where the listed deductions (or bonuses) sum to more than 100 points.
C10_ScoreWithinRange ==
    sPc = "scored" =>
        /\ \A c \in LegacyCategories :
             /\ sOut.detailed[c].score >= 0
             /\ sOut.detailed[c].score <= 100 * sOut.detailed[c].scale
        /\ \A c \in NewCategories :
             /\ sOut.breakdowns[c].score >= 0
             /\ sOut.breakdowns[c].score <= 100 * sOut.breakdowns[c].scale

\* the deductions listed by the accessibility breakdown exceed 100 points
C10_Witness ==
    /\ sPc = "scored"
    /\ SeqSum(sOut.breakdowns["accessibility"].deductions) > 100
    /\ sOut.breakdowns["accessibility"].score \in 0..100

(***************************************************************************)
(* The scoring stage of AuditEngine.run applied to one set of analyzer     *)
(* results: the legacy category scores and overall score, then the new     *)
(* scores.                                                                 *)
(***************************************************************************)
CalcReport(r) ==
    LET CalcSeo ==
            {s \in SeoDomain :
                /\ s.descriptionLengthOk = s.hasDescription
                /\ s.h1Count = 1 /\ s.structureOk /\ ~s.isThinContent
                /\ s.missingAlt = 0 /\ s.sitemapExists /\ s.robotsExists}
        CalcLocalPresence ==
            {x \in LocalPresenceDomain :
                ~x.mapsListed /\ x.nap = "absent" /\ ~x.hasPhones /\ ~x.hasAddresses}
        CalcSocial ==
            {x \in SocialDomain : ~x.ogTitle /\ ~x.ogDescription /\ ~x.twitterCard}
        CalcProfiles == {x \in CalcSocial : ~x.ogImage}
        CalcReviews ==
            {x \in ReviewsDomain :
                x.platformsLinked = 0 /\ ~x.websiteShowsReviews /\ ~x.testimonialPage}
        CalcRaw == {x \in RawScores : x.isNull \/ x.milli % 10 = 0}
        CalcRawCoarse == {x \in RawScores : x.isNull \/ x.milli % 100 = 0}
    IN
    \/ \E x \in CalcSeo : \E y \in CalcLocalPresence :
         r = [ProfileReport("empty") EXCEPT !.seo = x, !.localPresence = y]
    \/ \E x \in CalcSocial : \E y \in CalcReviews :
         r = [ProfileReport("empty") EXCEPT !.social = x, !.reviews = y]
    \/ \E ra \in CalcRaw : \E x \in CalcProfiles :
         r = [ProfileReport("absent") EXCEPT
                !.fundamentals = Fundamentals([isNull |-> TRUE, milli |-> 0], ra),
                !.social = x]
    \/ \E x \in SecurityDomain :
         r = [ProfileReport("full") EXCEPT !.security = x]
    \/ \E p \in Profiles :
         \/ \E x \in LocalDomain : r = [ProfileReport(p) EXCEPT !.local = x]
         \/ \E x \in AdvertisingDomain :
              r = [ProfileReport(p) EXCEPT !.advertising = x]
         \/ \E x \in EcommerceDomain :
              r = [ProfileReport(p) EXCEPT !.ecommerce = x]
         \/ \E rp \in CalcRawCoarse : \E ra \in CalcRawCoarse :
              r = [ProfileReport(p) EXCEPT
                     !.fundamentals = Fundamentals(rp, ra)]

InitCalc ==
    /\ RunIdle /\ MetricIdle
    /\ sPc = "input"
    /\ CalcReport(sReport)
    /\ sOut = NoScoreOutput

\* engine.ts: calculateCategoryScores, calculateOverallScore, the scores
\* object, calculateNewScores, generateNewScoreBreakdowns
ScoringStage ==
    /\ sPc = "input"
    /\ LET categoryScores == calculateCategoryScores(sReport) IN
       sOut' = [computed |-> TRUE,
                scores |-> [categoryScores EXCEPT
                              !.overall = calculateOverallScore(categoryScores)],
                newScores |-> calculateNewScores(sReport),
                scoreBreakdowns |-> generateNewScoreBreakdowns(sReport)]
    /\ sPc' = "calculated"
    /\ UNCHANGED <<sReport, runVars, metricVars>>

SpecCalc == InitCalc /\ [][ScoringStage]_vars

\* the weighted sum of the five new category scores, in hundredths
NewWeightedSum(n) ==
    25 * n.performance + 25 * n.visibility + 20 * n.security
    + 15 * n.accessibility + 15 * n.trust

\* the sum of the five new weights, added as doubles in the order of the table
NewWeightsTotal ==
    fadd(fadd(fadd(fadd(NEW_SCORE_WEIGHTS.performance,
                        NEW_SCORE_WEIGHTS.visibility),
                   NEW_SCORE_WEIGHTS.security),
              NEW_SCORE_WEIGHTS.accessibility),
         NEW_SCORE_WEIGHTS.trust)

\* v is p / q rounded to a nearest integer: Math.round of the exact quotient,
\* or one less where the quotient is exactly halfway between two integers
NearestInteger(v, p, q) ==
    \/ v = Round(p, q)
    \/ (2 * p) % (2 * q) = q /\ v = Round(p, q) - 1

FiveScoresInRange(n) ==
    \A c \in NewCategories : n[c] \in 0..100

\* C11 as stated: newScores.overall is Math.round of the exact weighted sum
\* 0.25 performance + 0.25 visibility + 0.20 security + 0.15 accessibility
\* + 0.15 trust of the scores in the same object, the weights sum to 1.0,
\* and overall is within 0..100 when the five scores are.
C11_OverallIsRoundedSum ==
    sPc = "calculated" =>
        /\ sOut.newScores.overall = Round(NewWeightedSum(sOut.newScores), 100)
        /\ NewWeightsTotal = FromInt(1)
        /\ FiveScoresInRange(sOut.newScores) => sOut.newScores.overall \in 0..100

\* C11 amended: newScores.overall is the weighted sum rounded to a nearest
\* integer, a sum exactly halfway between two integers giving either of
\* them; the weights sum to 1.0 and overall is within 0..100.
C11_OverallIsNearestInteger ==
    sPc = "calculated" =>
        /\ NearestInteger(sOut.newScores.overall,
                          NewWeightedSum(sOut.newScores), 100)
        /\ NewWeightsTotal = FromInt(1)
        /\ FiveScoresInRange(sOut.newScores)
        /\ sOut.newScores.overall \in 0..100

\* a weighted sum exactly halfway between two integers that came out as the
\* lower one, the scores not being all equal
C11_Witness ==
    /\ sPc = "calculated"
    /\ NewWeightedSum(sOut.newScores) % 100 = 50
    /\ sOut.newScores.overall = Round(NewWeightedSum(sOut.newScores), 100) - 1
    /\ sOut.newScores.accessibility > 0 /\ sOut.newScores.trust > 0

\* the tenth nearest to a double (the reviews score is a whole number of
\* fifths up to the rounding of its double)
Tenths(d) == d[7] * 10 + Round(d[6] * 10, 1024)

\* C12: visibility = round(0.7 seo + 0.3 localPresence) and
\* trust = round(0.4 social + 0.6 reviews) of the legacy category scores of
\* the same analyzer results.
C12_VisibilityTrustFormulas ==
    sPc = "calculated" =>
        /\ sOut.newScores.visibility =
              Round(7 * sOut.scores.seo + 3 * sOut.scores.localPresence, 10)
        /\ sOut.newScores.trust =
              Round(40 * sOut.scores.social + 6 * Tenths(sOut.scores.reviews),
                    100)

\* C13: the new performance, security and accessibility scores equal the
\* legacy ones computed from the same analyzer results.
C13_DirectCategoriesEqual ==
    sPc = "calculated" =>
        /\ sOut.newScores.performance = sOut.scores.performance
        /\ sOut.newScores.security = sOut.scores.security
        /\ sOut.newScores.accessibility = sOut.scores.accessibility

C13_Witness ==
    /\ sPc = "calculated"
    /\ sOut.newScores.security = 54
    /\ sOut.newScores.performance = 100
    /\ sOut.newScores.accessibility = 100

\* the legacy categories whose analyzer result is in the report
PresentCategories(r) ==
    (IF r.fundamentals.present THEN {"performance", "accessibility"} ELSE {})
    \cup (IF r.seo.present THEN {"seo"} ELSE {})
    \cup (IF r.social.present THEN {"social"} ELSE {})
    \cup (IF r.security.present THEN {"security"} ELSE {})
    \cup (IF r.localPresence.present \/ r.local.present
             THEN {"localPresence"} ELSE {})
    \cup (IF r.reviews.present THEN {"reviews"} ELSE {})
    \cup (IF r.advertising.present THEN {"advertising"} ELSE {})
    \cup (IF r.ecommerce.present /\ r.ecommerce.hasEcommerce
             THEN {"ecommerce"} ELSE {})

\* the legacy weights in thousandths
LegacyWeight(c) ==
    CASE c = "performance" -> 250 [] c = "seo" -> 200
      [] c = "accessibility" -> 150 [] c = "social" -> 100
      [] c = "security" -> 150 [] c = "localPresence" -> 50
      [] c = "reviews" -> 50 [] c = "advertising" -> 25
      [] c = "ecommerce" -> 25

RECURSIVE SetSum(_, _, _)
SetSum(S, f(_), acc) ==
    IF S = {} THEN acc
    ELSE LET c == CHOOSE x \in S : TRUE IN SetSum(S \ {c}, f, acc + f(c))

\* C14: the legacy overall score of the run is
\* round(sum(score_c * w_c) / sum(w_c)) over the categories present only.
C14_AbsentCategoriesExcluded ==
    sPc = "calculated" =>
        LET present == PresentCategories(sReport)
            tenths(c) == IF c = "reviews" THEN Tenths(sOut.scores.reviews)
                         ELSE 10 * sOut.scores[c]
            weighted(c) == tenths(c) * LegacyWeight(c)
            num == SetSum(present, weighted, 0)
            den == 10 * SetSum(present, LegacyWeight, 0)
        IN  IF present = {} THEN sOut.scores.overall = 0
            ELSE NearestInteger(sOut.scores.overall, num, den)

(***************************************************************************)
(* Suggestions: generateNewSuggestions (three buckets) and the legacy      *)
(* generateImprovementSuggestions (one list sorted by priority).  The      *)
(* input holds what the rules test of report.details and of the scores.    *)
(***************************************************************************)
\* the inputs: either the fields only the legacy rules read or the fields
\* only the new rules read are those of a site without any finding
SuggestInput(in) ==
    LET SuggestDomain ==
            [performance : {40, 60, 90}, accessibility : {60, 90},
             missingAlt : BOOLEAN, hasTitle : BOOLEAN,
             sitemapExists : BOOLEAN, isHTTPS : BOOLEAN,
             hasPrivacyPolicy : BOOLEAN, ogImage : BOOLEAN,
             websiteShowsReviews : BOOLEAN, criticalSeoIssues : BOOLEAN,
             brokenLinks : BOOLEAN, ogComplete : BOOLEAN,
             googleAnalytics : BOOLEAN, googleAnalytics4 : BOOLEAN,
             facebookPixel : BOOLEAN, hasCookieBanner : BOOLEAN,
             isThinContent : BOOLEAN, lowReadingEase : BOOLEAN]
        SuggestClean ==
            [performance |-> 90, accessibility |-> 90, missingAlt |-> FALSE,
             hasTitle |-> TRUE, sitemapExists |-> TRUE, isHTTPS |-> TRUE,
             hasPrivacyPolicy |-> TRUE, ogImage |-> TRUE,
             websiteShowsReviews |-> TRUE, criticalSeoIssues |-> FALSE,
             brokenLinks |-> FALSE, ogComplete |-> TRUE,
             googleAnalytics |-> TRUE, googleAnalytics4 |-> FALSE,
             facebookPixel |-> FALSE, hasCookieBanner |-> TRUE,
             isThinContent |-> FALSE, lowReadingEase |-> FALSE]
        NewOnlyFields ==
            {"hasTitle", "hasPrivacyPolicy", "ogImage", "websiteShowsReviews"}
        LegacyOnlyFields ==
            {"accessibility", "criticalSeoIssues", "brokenLinks",
             "ogComplete", "googleAnalytics", "hasCookieBanner",
             "isThinContent", "lowReadingEase"}
    IN  /\ in \in SuggestDomain
        /\ ~in.googleAnalytics4 /\ ~in.facebookPixel
        /\ \/ \A f \in LegacyOnlyFields : in[f] = SuggestClean[f]
           \/ \A f \in NewOnlyFields : in[f] = SuggestClean[f]

\* the rules of generateNewSuggestions in the order they are evaluated
NewRules ==
    <<[id |-> "perf-critical",  impact |-> "high",   effort |-> "high"],
      [id |-> "seo-alt-text",   impact |-> "high",   effort |-> "low"],
      [id |-> "seo-title",      impact |-> "high",   effort |-> "low"],
      [id |-> "seo-sitemap",    impact |-> "medium", effort |-> "low"],
      [id |-> "sec-https",      impact |-> "high",   effort |-> "medium"],
      [id |-> "sec-privacy",    impact |-> "high",   effort |-> "medium"],
      [id |-> "trust-og-image", impact |-> "high",   effort |-> "low"],
      [id |-> "trust-reviews",  impact |-> "medium", effort |-> "medium"]>>

NewRuleApplies(in, id) ==
    CASE id = "perf-critical"  -> in.performance < 50
      [] id = "seo-alt-text"   -> in.missingAlt
      [] id = "seo-title"      -> ~in.hasTitle
      [] id = "seo-sitemap"    -> ~in.sitemapExists
      [] id = "sec-https"      -> ~in.isHTTPS
      [] id = "sec-privacy"    -> ~in.hasPrivacyPolicy
      [] id = "trust-og-image" -> ~in.ogImage
      [] id = "trust-reviews"  -> ~in.websiteShowsReviews

IsPriorityFixAnyEffort(s) == s.impact = "high"
IsPriorityFix(s) == s.impact = "high" /\ s.effort # "low"

generateNewSuggestions(in) ==
    LET suggestions ==
            SelectSeq(NewRules, LAMBDA s : NewRuleApplies(in, s.id))
        IsQuickWin(s)   == s.impact = "high" /\ s.effort = "low"
        IsNiceToHave(s) == s.impact # "high"
    IN  [quickWins     |-> SelectSeq(suggestions, IsQuickWin),
         priorityFixes |-> SelectSeq(suggestions, IsPriorityFix),
         niceToHave    |-> SelectSeq(suggestions, IsNiceToHave)]

\* the rules of generateImprovementSuggestions in the order they are
\* evaluated
LegacyRules ==
    <<[rule |-> "performance-critical", priority |-> 1],
      [rule |-> "performance",          priority |-> 3],
      [rule |-> "https",                priority |-> 1],
      [rule |-> "critical-seo",         priority |-> 2],
      [rule |-> "broken-links",         priority |-> 4],
      [rule |-> "accessibility",        priority |-> 2],
      [rule |-> "open-graph",           priority |-> 5],
      [rule |-> "analytics",            priority |-> 3],
      [rule |-> "thin-content",         priority |-> 4],
      [rule |-> "readability",          priority |-> 6],
      [rule |-> "alt-text",             priority |-> 5],
      [rule |-> "sitemap",              priority |-> 5],
      [rule |-> "cookie-consent",       priority |-> 3]>>

LegacyRuleApplies(in, rule) ==
    CASE rule = "performance-critical" -> in.performance < 50
      [] rule = "performance"   -> in.performance >= 50 /\ in.performance < 75
      [] rule = "https"         -> ~in.isHTTPS
      [] rule = "critical-seo"  -> in.criticalSeoIssues
      [] rule = "broken-links"  -> in.brokenLinks
      [] rule = "accessibility" -> in.accessibility < 70
      [] rule = "open-graph"    -> ~in.ogComplete
      [] rule = "analytics"     -> ~in.googleAnalytics /\ ~in.googleAnalytics4
      [] rule = "thin-content"  -> in.isThinContent
      [] rule = "readability"   -> in.lowReadingEase
      [] rule = "alt-text"      -> in.missingAlt
      [] rule = "sitemap"       -> ~in.sitemapExists
      [] rule = "cookie-consent" ->
             ~in.hasCookieBanner /\ (in.googleAnalytics \/ in.facebookPixel)

\* Array.prototype.sort with (a, b) => a.priority - b.priority: a stable
\* sort, st.i the next element to insert into st.sorted
sortByPriorityKeepOrder(list) == list
sortByPriority(list) ==
    LET InsertByPriority(sorted, x) ==
            LET before == SelectSeq(sorted, LAMBDA y : y.priority <= x.priority)
                after  == SelectSeq(sorted, LAMBDA y : y.priority > x.priority)
            IN  before \o <<x>> \o after
        SortFrom[st \in [list : Seq([rule : STRING, priority : Nat]), i : Nat,
                         sorted : Seq([rule : STRING, priority : Nat])]] ==
            IF st.i > Len(st.list) THEN st.sorted
            ELSE SortFrom[[st EXCEPT !.i = st.i + 1,
                                     !.sorted = InsertByPriority(st.sorted,
                                                         st.list[st.i])]]
    IN  SortFrom[[list |-> list, i |-> 1, sorted |-> <<>>]]

generateImprovementSuggestions(in) ==
    LET suggestions ==
            SelectSeq(LegacyRules, LAMBDA s : LegacyRuleApplies(in, s.rule))
    IN  sortByPriority(suggestions)

InitSuggest ==
    /\ RunIdle /\ MetricIdle
    /\ sPc = "input"
    /\ SuggestInput(sReport)
    /\ sOut = NoScoreOutput

\* engine.ts: generateNewSuggestions, then generateSummary with its
\* improvement list
GenerateSuggestions ==
    /\ sPc = "input"
    /\ sOut' = [computed |-> TRUE,
                suggestions |-> generateNewSuggestions(sReport),
                improvements |-> generateImprovementSuggestions(sReport)]
    /\ sPc' = "suggested"
    /\ UNCHANGED <<sReport, runVars, metricVars>>

SpecSuggest == InitSuggest /\ [][GenerateSuggestions]_vars

Range(seq) == {seq[i] : i \in 1..Len(seq)}
Occurrences(seq, x) == Cardinality({i \in 1..Len(seq) : seq[i] = x})

\* the suggestions generated for an input
Generated(in) == {s \in Range(NewRules) : NewRuleApplies(in, s.id)}

\* C15: every generated suggestion appears in exactly one of quickWins,
\* priorityFixes, niceToHave; quickWins holds exactly those with impact high
\* and effort low, priorityFixes exactly those with impact high and effort
\* not low, niceToHave all the others.
C15_ExactlyOneBucket ==
    sPc = "suggested" =>
        LET b   == sOut.suggestions
            all == b.quickWins \o b.priorityFixes \o b.niceToHave
            gen == Generated(sReport)
        IN  /\ Range(all) = gen
            /\ \A s \in gen : Occurrences(all, s) = 1
            /\ Range(b.quickWins) =
                  {s \in gen : s.impact = "high" /\ s.effort = "low"}
            /\ Range(b.priorityFixes) =
                  {s \in gen : s.impact = "high" /\ s.effort # "low"}
            /\ Range(b.niceToHave) =
                  {s \in gen : ~(s.impact = "high")}

\* every rule fired and every bucket is filled
C15_Witness ==
    /\ sPc = "suggested"
    /\ Len(sOut.suggestions.quickWins) = 3
    /\ Len(sOut.suggestions.priorityFixes) = 3
    /\ Len(sOut.suggestions.niceToHave) = 2

\* the order in which the rules are evaluated, as the claim lists it
RuleOrder ==
    <<"perf-critical", "seo-alt-text", "seo-title", "seo-sitemap",
      "sec-https", "sec-privacy", "trust-og-image", "trust-reviews">>
RuleIndex(id) == CHOOSE i \in 1..Len(RuleOrder) : RuleOrder[i] = id
InRuleOrder(bucket) ==
    \A i, j \in 1..Len(bucket) :
        i < j => RuleIndex(bucket[i].id) < RuleIndex(bucket[j].id)
SortedByPriority(list) ==
    \A i, j \in 1..Len(list) : i < j => list[i].priority <= list[j].priority

\* C16: within each bucket the suggestions keep the order in which their
\* rules were evaluated, and the legacy improvement list is sorted by
\* priority ascending (and holds the suggestions of the rules that applied).
C16_BucketOrderAndPrioritySort ==
    sPc = "suggested" =>
        /\ InRuleOrder(sOut.suggestions.quickWins)
        /\ InRuleOrder(sOut.suggestions.priorityFixes)
        /\ InRuleOrder(sOut.suggestions.niceToHave)
        /\ SortedByPriority(sOut.improvements)
        /\ Range(sOut.improvements) =
              {s \in Range(LegacyRules) : LegacyRuleApplies(sReport, s.rule)}

\* buckets with several suggestions, and a legacy list whose rules fired in
\* an order that is not the priority order
C16_Witness ==
    /\ sPc = "suggested"
    /\ Len(sOut.suggestions.quickWins) >= 2
    /\ Len(sOut.suggestions.priorityFixes) >= 2
    /\ Len(sOut.improvements) >= 4
    /\ ~SortedByPriority(
           SelectSeq(LegacyRules,
                     LAMBDA s : LegacyRuleApplies(sReport, s.rule)))

(***************************************************************************)
(* extractFacts.  A JavaScript value is a record of its type and a         *)
(* number: the truth value of a boolean, the value of a number, the        *)
(* length of a string or of an array.  An analyzer result is absent        *)
(* (undefined), bare (present, its optional fields missing and the others  *)
(* empty) or full.                                                         *)
(***************************************************************************)
Undefined == [type |-> "undefined", v |-> 0]

\* a value that || replaces by its right operand
Falsy(x) ==
    \/ x.type \in {"undefined", "null"}
    \/ x.type \in {"boolean", "number", "string"} /\ x.v = 0

PerformanceScores == {0, 40, 100}

\* the properties of the object returned by extractFacts.  Row is one
\* property: the value read through optional chaining from the analyzer
\* result `from` when that is bare or full, the legacy result read next (or
\* "none"), and the right operand of || (defaulted FALSE: the value is
\* copied as it is)
FactRows ==
    LET Null      == [type |-> "null", v |-> 0]
        False     == [type |-> "boolean", v |-> 0]
        True      == [type |-> "boolean", v |-> 1]
        Num(n)    == [type |-> "number", v |-> n]
        Str(n)    == [type |-> "string", v |-> n]
        Arr(n)    == [type |-> "array", v |-> n]
        Obj       == [type |-> "object", v |-> 1]
        Row(field, from, bare, full, legacy, defaulted, dflt) ==
            [field |-> field, from |-> from, bare |-> bare, full |-> full,
             legacy |-> legacy, defaulted |-> defaulted, dflt |-> dflt]
        Given(field) ==
            Row(field, "url", Str(1), Str(1), "none", FALSE, Undefined)
        Flag(field, a)  == Row(field, a, False, True, "none", TRUE, False)
        Count(field, a) == Row(field, a, Num(0), Num(3), "none", TRUE, Num(0))
        Text(field, a)  == Row(field, a, Null, Str(1), "none", TRUE, Null)
        List(field, a)  == Row(field, a, Arr(0), Arr(2), "none", TRUE, Arr(0))
        ListWithLegacy(field, a) ==
            Row(field, a, Arr(0), Arr(2), "local", TRUE, Arr(0))
        Object(field, a) == Row(field, a, Obj, Obj, "none", TRUE, Obj)
        Optional(field, a) ==
            Row(field, a, Undefined, Num(3), "none", FALSE, Undefined)
        OptionalText(field, a) ==
            Row(field, a, Undefined, Str(1), "none", FALSE, Undefined)
        OptionalObject(field, a) ==
            Row(field, a, Undefined, Obj, "none", FALSE, Undefined)
        Required(field, a) ==
            Row(field, a, False, True, "none", FALSE, Undefined)
        Score(field, a) ==
            Row(field, a, Num(0), Num(0), "none", FALSE, Undefined)
        NameOrUndefined(field, a) ==
            Row(field, a, Null, Str(1), "none", TRUE, Undefined)
    IN
        <<Given("site.url"),
          OptionalText("site.cms", "tech"),
          OptionalText("site.server", "tech"),
          Flag("site.isHTTPS", "tech"),
          Flag("site.hasHSTS", "tech"),
          Flag("site.mixedContent", "tech"),
          List("site.technologies", "tech"),
          List("site.cdns", "tech"),
          List("site.securityHeaders", "tech"),
          Flag("site.gdprCompliance.hasPrivacyPolicy", "tech"),
          Flag("site.gdprCompliance.hasCookieBanner", "tech"),
          Flag("site.gdprCompliance.hasCookiePolicy", "tech"),
          Flag("site.analytics.googleAnalytics", "tech"),
          Flag("site.analytics.googleAnalytics4", "tech"),
          Flag("site.analytics.googleTagManager", "tech"),
          Flag("site.analytics.facebookPixel", "tech"),
          Flag("site.analytics.hotjar", "tech"),
          List("site.analytics.otherTrackers", "tech"),
          Flag("site.advertising.googleAds", "advertising"),
          Flag("site.advertising.bingAds", "advertising"),
          Flag("site.advertising.facebookAds", "advertising"),
          Flag("site.advertising.linkedinAds", "advertising"),
          List("site.advertising.retargeting", "advertising"),
          Flag("site.ecommerce.detected", "ecommerce"),
          NameOrUndefined("site.ecommerce.platform", "ecommerce"),
          List("site.ecommerce.paymentProcessors", "ecommerce"),
          Flag("site.ecommerce.hasCart", "ecommerce"),
          Flag("site.ecommerce.hasProductSchema", "ecommerce"),
          Optional("speed.lcp", "fundamentals"),
          Optional("speed.cls", "fundamentals"),
          Optional("speed.fcp", "fundamentals"),
          Optional("speed.tbt", "fundamentals"),
          Optional("speed.ttfb", "fundamentals"),
          Optional("speed.si", "fundamentals"),
          Optional("speed.tti", "fundamentals"),
          Score("speed.lighthouseScore", "fundamentals"),
          Flag("speed.mobile.isMobileFriendly", "fundamentals"),
          Flag("speed.mobile.viewportConfigured", "fundamentals"),
          Flag("speed.mobile.fontSizeOk", "fundamentals"),
          Flag("speed.mobile.tapTargetsOk", "fundamentals"),
          List("speed.opportunities", "fundamentals"),
          OptionalObject("speed.diagnostics", "fundamentals"),
          Text("content.title", "seo"),
          Count("content.titleLength", "seo"),
          Text("content.description", "seo"),
          Count("content.descriptionLength", "seo"),
          Text("content.canonical", "seo"),
          Text("content.language", "seo"),
          Count("content.h1Count", "seo"),
          List("content.headingStructure", "seo"),
          Count("content.wordCount", "seo"),
          Count("content.readingEase", "seo"),
          Count("content.readingLevel", "seo"),
          Count("content.paragraphCount", "seo"),
          Count("content.avgSentenceLength", "seo"),
          Count("content.images.total", "seo"),
          Count("content.images.missingAlt", "seo"),
          List("content.images.list", "seo"),
          List("content.images.oversized", "seo"),
          Count("content.links.internal", "seo"),
          Count("content.links.external", "seo"),
          List("content.links.broken", "seo"),
          Count("content.links.nofollow", "seo"),
          Flag("content.sitemap.exists", "seo"),
          Text("content.sitemap.url", "seo"),
          Optional("content.sitemap.urlCount", "seo"),
          Flag("content.robots.exists", "seo"),
          Flag("content.robots.allowsIndexing", "seo"),
          List("content.robots.sitemapUrls", "seo"),
          List("content.structuredData", "seo"),
          List("content.spellingErrors", "seo"),
          Text("presence.businessName", "localPresence"),
          ListWithLegacy("presence.phones", "localPresence"),
          ListWithLegacy("presence.addresses", "localPresence"),
          ListWithLegacy("presence.emails", "localPresence"),
          Flag("presence.googleBusiness.exists", "localPresence"),
          Text("presence.googleBusiness.url", "localPresence"),
          Required("presence.googleBusiness.verified", "localPresence"),
          Optional("presence.googleBusiness.rating", "localPresence"),
          Optional("presence.googleBusiness.reviewCount", "localPresence"),
          OptionalText("presence.googleBusiness.category", "localPresence"),
          Flag("presence.googleMaps.listed", "localPresence"),
          List("presence.directories", "localPresence"),
          Text("presence.napConsistency.name.value", "localPresence"),
          List("presence.napConsistency.name.variations", "localPresence"),
          Text("presence.napConsistency.address.value", "localPresence"),
          List("presence.napConsistency.address.variations", "localPresence"),
          Text("presence.napConsistency.phone.value", "localPresence"),
          List("presence.napConsistency.phone.variations", "localPresence"),
          Object("presence.openGraph", "social"),
          Object("presence.twitterCard", "social"),
          Object("presence.socialProfiles", "social"),
          Count("presence.reviews.averageRating", "reviews"),
          Count("presence.reviews.totalCount", "reviews"),
          Count("presence.reviews.recentCount", "reviews"),
          List("presence.reviews.platforms", "reviews"),
          Flag("presence.websiteShowsReviews", "reviews"),
          Text("presence.testimonialPage", "reviews")>>

\* one property: Read is the value read from analyzer result a of report r
FactValue(r, row) ==
    LET Read(a) ==
            IF a = "url" THEN row.full
            ELSE IF r[a] = "absent" THEN Undefined
            ELSE IF row.field = "speed.lighthouseScore"
                 THEN [type |-> "number", v |-> r.performance]
            ELSE IF r[a] = "bare" THEN row.bare
            ELSE row.full
        first == Read(row.from)
        value == IF row.legacy = "none" \/ ~Falsy(first) THEN first
                 ELSE Read(row.legacy)
    IN  IF row.defaulted /\ Falsy(value) THEN row.dflt ELSE value

FactFields == {FactRows[i].field : i \in 1..Len(FactRows)}

extractFacts(r) ==
    LET RowOf(field) ==
            FactRows[CHOOSE i \in 1..Len(FactRows) :
                        FactRows[i].field = field]
    IN  [f \in FactFields |-> FactValue(r, RowOf(f))]

\* the results that details always holds vary together, and so do the
\* optional ones
FactsInput(r) ==
    LET FactProfiles == {"absent", "bare", "full"}
    IN  /\ r \in [tech : FactProfiles, fundamentals : FactProfiles,
                  seo : FactProfiles, localPresence : FactProfiles,
                  local : FactProfiles, social : FactProfiles,
                  reviews : FactProfiles, advertising : FactProfiles,
                  ecommerce : FactProfiles, performance : PerformanceScores]
        /\ r.social = r.seo /\ r.local = r.seo
        /\ r.advertising = r.reviews

InitFacts ==
    /\ RunIdle /\ MetricIdle
    /\ sPc = "input"
    /\ FactsInput(sReport)
    /\ sOut = NoScoreOutput

\* engine.ts: extractFacts(reportWithScores, resolvedUrl)
ExtractFacts ==
    /\ sPc = "input"
    /\ sOut' = [computed |-> TRUE, facts |-> extractFacts(sReport)]
    /\ sPc' = "extracted"
    /\ UNCHANGED <<sReport, runVars, metricVars>>

SpecFacts == InitFacts /\ [][ExtractFacts]_vars

\* C17: extractFacts returns (it has no throwing step) and every field of
\* the facts holds false, 0, null, an empty list or an observed value, never
\* undefined, whichever analyzer results or sub-fields are missing.
C17_SafeEmptyValues ==
    sPc = "extracted" =>
        /\ DOMAIN sOut.facts = FactFields
        /\ \A f \in FactFields : sOut.facts[f] # Undefined

\* C18: no field of the facts is derived from a score: the facts of two
\* reports that differ in the performance score only are the same.
C18_NoScoreInFacts ==
    sPc = "extracted" =>
        \A p \in PerformanceScores :
            extractFacts([sReport EXCEPT !.performance = p]) = sOut.facts

\* the scenario of C19: title and description absent, one H1, no broken
\* link, no sitemap, no other SEO problem, nothing deducted for local presence
SeoScenario(r) ==
    /\ r.seo.present
    /\ ~r.seo.hasTitle /\ ~r.seo.hasDescription /\ r.seo.h1Count = 1
    /\ r.seo.brokenLinks = 0 /\ ~r.seo.sitemapExists
    /\ r.seo.structureOk /\ ~r.seo.isThinContent /\ r.seo.missingAlt = 0
    /\ r.seo.robotsExists
    /\ ~r.localPresence.present \/ r.localPresence.gbpExists

\* C19: in the scenario the itemised deductions of the SEO breakdown and of
\* the visibility breakdown each sum to 30 and the findability score is 70;
\* in general the SEO score is 100 minus the itemised penalties (broken
\* links 3 points each, at most 15), clamped to 0..100.
C19_SeoScenarioDeductions ==
    sPc = "scored" =>
        /\ SeoScenario(sReport) =>
              /\ SeqSum(sOut.detailed["seo"].deductions) = 30
              /\ SeqSum(sOut.breakdowns["visibility"].deductions) = 30
              /\ sOut.breakdowns["visibility"].score = 70
        /\ sReport.seo.present =>
              /\ sOut.detailed["seo"].score =
                    Max(0, Min(100,
                        100 - SeqSum(sOut.detailed["seo"].deductions)))
              /\ calculateSeoScore(sReport) = sOut.detailed["seo"].score

\* the closed form of C20 over report.details.tech.security
SecurityFormula(security) ==
    Min(100,
        If(security.isHTTPS, 40) + If(security.hasHSTS, 10)
        + If(~security.mixedContent, 10)
        + Min(20, 4 * security.presentHeaders)
        + If(security.hasPrivacyPolicy, 10)
        + If(security.hasCookieBanner, 10))

\* C20: when the security data is present, calculateSecurityScore and the
\* score of generateSecurityBreakdown both equal min(100, 40 if HTTPS + 10 if
\* HSTS + 10 if no mixed content + min(20, 4 * present headers) + 10 if
\* privacy policy + 10 if cookie banner); HTTPS with one header, no HSTS, no
\* mixed content, no privacy policy and no cookie banner gives 54.
C20_SecurityScoreFormula ==
    (sPc = "scored" /\ sReport.security.present) =>
        /\ calculateSecurityScore(sReport) = SecurityFormula(sReport.security)
        /\ sOut.detailed["security"].score = calculateSecurityScore(sReport)
        /\ ( /\ sReport.security.isHTTPS /\ ~sReport.security.hasHSTS
             /\ sReport.security.presentHeaders = 1
             /\ ~sReport.security.mixedContent
             /\ ~sReport.security.hasPrivacyPolicy
             /\ ~sReport.security.hasCookieBanner )
           => sOut.detailed["security"].score = 54

C20_Witness ==
    /\ sPc = "scored" /\ sReport.security.present
    /\ sReport.security.isHTTPS /\ ~sReport.security.hasHSTS
    /\ sReport.security.presentHeaders = 1
    /\ ~sReport.security.mixedContent
    /\ ~sReport.security.hasPrivacyPolicy
    /\ ~sReport.security.hasCookieBanner
    /\ sOut.detailed["security"].score = 54
    /\ calculateSecurityScore(sReport) = 54

\* C21: every navigation attempt of getPage during run(config) uses
\* timeout = config.timeout.
C21_NavigationUsesConfigTimeout ==
    \A i \in 1..Len(navLog) : navLog[i].timeout = configTimeout

DeductionsAccount(b) ==
    b.score = Max(0, 100 * b.scale - SeqSum(b.deductions))

BonusesAccount(b) ==
    b.score = Min(100 * b.scale, SeqSum(b.bonuses))

\* C28: in every breakdown of a report whose analyzer results are present,
\* the itemised entries account for the score: the seo and visibility scores
\* are max(0, 100 - sum of the deductions), the security, social,
\* localPresence, reviews and trust scores are min(100, sum of the bonuses).
C28_EntriesAccountForScore ==
    sPc = "scored" =>
        /\ sReport.seo.present => DeductionsAccount(sOut.detailed.seo)
        /\ (sReport.seo.present \/ sReport.localPresence.present) =>
              DeductionsAccount(sOut.breakdowns.visibility)
        /\ sReport.security.present => BonusesAccount(sOut.detailed.security)
        /\ sReport.social.present => BonusesAccount(sOut.detailed.social)
        /\ (sReport.localPresence.present \/ sReport.local.present) =>
              BonusesAccount(sOut.detailed.localPresence)
        /\ sReport.reviews.present => BonusesAccount(sOut.detailed.reviews)
        /\ (sReport.social.present \/ sReport.reviews.present) =>
              BonusesAccount(sOut.breakdowns.trust)

\* C27: for each of the five new categories the score of the breakdown
\* returned by generateNewScoreBreakdowns equals the score returned by
\* calculateNewScores for the same report.
C27_BreakdownScoreIsNewScore ==
    sPc = "calculated" =>
        \A c \in NewCategories :
            sOut.scoreBreakdowns[c].score = sOut.newScores[c]

(***************************************************************************)
(* Two audits running concurrently in one process: two run() calls on the  *)
(* same AuditEngine (one BrowserManager) or on two AuditEngine instances.  *)
(* JavaScript runs each stretch between two awaits without interruption,   *)
(* so one action is one such stretch.  sReport is the arrangement, sOut    *)
(* the managers' browser fields, the sessions that are open and each       *)
(* audit's position; a session is named after the audit whose launch()     *)
(* created it, 0 is null.                                                  *)
(***************************************************************************)
Audits == {1, 2}

\* runAudit makes a new AuditEngine per call; engine.run may be called twice
engineOf(a) == IF sReport.sameEngine THEN 1 ELSE a

InitShare ==
    /\ RunIdle /\ MetricIdle
    /\ sPc = "concurrent"
    /\ sReport \in [sameEngine : BOOLEAN]
    /\ sOut = [browser |-> [e \in Audits |-> 0],
               open |-> {},
               audit |-> [a \in Audits |-> [pc |-> "start", page |-> 0]],
               log |-> {}]

\* the log of operations of audit a on a session s that was launched by the
\* other audit, which is still between its launch() and its finally block
Touch(a, kind, s) ==
    LET UsedByOther ==
            /\ s \in Audits \ {a}
            /\ sOut.audit[s].pc \in {"getPage", "getHtml", "scanners", "pageClose"}
    IN
    IF UsedByOther
       THEN sOut.log \cup {[by |-> a, kind |-> kind, session |-> s]}
       ELSE sOut.log

\* run(): report(5), launch() up to the await of chromium.launch
LaunchBegin(a) ==
    /\ sOut.audit[a].pc = "start"
    /\ sOut' = [sOut EXCEPT !.audit[a].pc = "launching"]

\* this.browser = await chromium.launch(...)
LaunchEnd(a) ==
    /\ sOut.audit[a].pc = "launching"
    /\ sOut' = [sOut EXCEPT !.audit[a].pc = "getPage",
                            !.open = @ \cup {a},
                            !.browser[engineOf(a)] = a,
                            !.log = Touch(a, "replace", sOut.browser[engineOf(a)])]

\* getPage: throws if this.browser is null, else this.browser.newPage(),
\* which throws on a closed browser
NewPage(a) ==
    /\ sOut.audit[a].pc = "getPage"
    /\ LET s == sOut.browser[engineOf(a)] IN
       IF s = 0 \/ s \notin sOut.open
          THEN sOut' = [sOut EXCEPT !.audit[a].pc = "finally"]
          ELSE sOut' = [sOut EXCEPT !.audit[a].pc = "getHtml",
                                   !.audit[a].page = s,
                                   !.log = Touch(a, "use", s)]

\* getHtml, the scanners, page.close(): each awaits an operation on the
\* page, which throws once the page's browser is closed
UsePage(a) ==
    LET AuditPositions == <<"getHtml", "scanners", "pageClose", "finally">> IN
    /\ \E i \in 1..3 :
         /\ sOut.audit[a].pc = AuditPositions[i]
         /\ IF sOut.audit[a].page \in sOut.open
               THEN sOut' = [sOut EXCEPT !.audit[a].pc = AuditPositions[i + 1]]
               ELSE sOut' = [sOut EXCEPT !.audit[a].pc = "finally"]

\* finally: close() up to the await of this.browser.close()
CloseBegin(a) ==
    /\ sOut.audit[a].pc = "finally"
    /\ LET s == sOut.browser[engineOf(a)] IN
       IF s = 0
          THEN sOut' = [sOut EXCEPT !.audit[a].pc = "done"]
          ELSE sOut' = [sOut EXCEPT !.audit[a].pc = "closing",
                                   !.open = @ \ {s},
                                   !.log = Touch(a, "close", s)]

\* this.browser = null, after the await
CloseEnd(a) ==
    /\ sOut.audit[a].pc = "closing"
    /\ sOut' = [sOut EXCEPT !.audit[a].pc = "done",
                            !.browser[engineOf(a)] = 0]

NextShare ==
    /\ \E a \in Audits :
         \/ LaunchBegin(a)
         \/ LaunchEnd(a)
         \/ NewPage(a)
         \/ UsePage(a)
         \/ CloseBegin(a)
         \/ CloseEnd(a)
    /\ UNCHANGED <<sPc, sReport, runVars, metricVars>>

SpecShare == InitShare /\ [][NextShare]_vars

\* C23: under every interleaving of two concurrent audits, on the same or on
\* different AuditEngine instances, neither audit closes, replaces or uses
\* the browser session that the other audit launched and is still using.
C23_SessionExclusivelyOwned == sOut.log = {}

(***************************************************************************)
(* ReviewsScanner.run: the rating.  The page is given by the rating        *)
(* candidates it holds, in document order, per source: the ratingValue of  *)
(* each JSON-LD aggregateRating, the microdata ratingValue elements, the   *)
(* numbers matched by the visible-text patterns in the order they are      *)
(* tried (stars, /5, /10 halved, rated).  A candidate is what parseFloat   *)
(* returns: NaN or a number, kept in hundredths.                           *)
(***************************************************************************)
MaxSchemaRatings == 2

ReviewsPages ==
    LET UpTo(S, n) == UNION {[1..k -> S] : k \in 0..n}
        NotANumber == [nan |-> TRUE, h |-> 0]
        Number(h)  == [nan |-> FALSE, h |-> h]
        SchemaValues == {NotANumber, Number(-100), Number(4), Number(500),
                         Number(501)}
    IN  [schema    : UpTo(SchemaValues, MaxSchemaRatings),
         microdata : UpTo({NotANumber, Number(435)}, 2),
         visible   : UpTo({Number(450), Number(600)}, 2),
         linked    : {{}, {"Google"}}]

\* rating > 0 && rating <= 5: false for NaN
ValidRatingUpTo10(c) == ~c.nan /\ c.h > 0 /\ c.h <= 1000
ValidRating(c) == ~c.nan /\ c.h > 0 /\ c.h <= 500

\* the first candidate of a source that passes the range check, or null
FirstValid(candidates) ==
    LET valid == SelectSeq(candidates, ValidRating)
    IN  IF valid = <<>> THEN [found |-> FALSE, h |-> 0]
        ELSE [found |-> TRUE, h |-> valid[1].h]

extractRatingWithPrecedence(page) ==
    LET \* extractSchemaRating: parseFloat(String(aggRating.ratingValue)) || 0
        schemaRating ==
            FirstValid([i \in 1..Len(page.schema) |->
                          IF page.schema[i].nan THEN [nan |-> FALSE, h |-> 0]
                          ELSE page.schema[i]])
        microdataRating == FirstValid(page.microdata)
        visibleRating == FirstValid(page.visible)
    IN  IF schemaRating.found THEN schemaRating
        ELSE IF microdataRating.found THEN microdataRating
        ELSE visibleRating

\* rating: null, reviewCount: 0 for every platform; url is the first link
\* matching one of the platform's patterns
detectReviewPlatforms(page) ==
    LET REVIEW_PLATFORMS ==
            <<"Google", "Yelp", "Facebook", "TripAdvisor", "Trustpilot",
              "BBB", "Angi">>
    IN
    [i \in 1..Len(REVIEW_PLATFORMS) |->
        [name |-> REVIEW_PLATFORMS[i],
         url |-> IF REVIEW_PLATFORMS[i] \in page.linked THEN "href" ELSE "null",
         rating |-> "null", reviewCount |-> 0]]

\* overall.averageRating is Math.round(averageRating * 10) / 10, kept as the
\* rounded number of tenths
ReviewsScannerRun(page) ==
    LET extractedRating == extractRatingWithPrecedence(page)
        \* extractedRating?.rating || 0
        rating ==
            IF extractedRating.found
               THEN fdiv(FromInt(extractedRating.h), FromInt(100))
               ELSE Zero
    IN  [computed |-> TRUE,
         averageRatingTenths |-> MathRound(fmul(rating, FromInt(10))),
         platforms |-> detectReviewPlatforms(page)]

InitReviews ==
    /\ RunIdle /\ MetricIdle
    /\ sPc = "input"
    /\ sReport \in ReviewsPages
    /\ sOut = NoScoreOutput

ScanReviews ==
    /\ sPc = "input"
    /\ sOut' = ReviewsScannerRun(sReport)
    /\ sPc' = "scanned"
    /\ UNCHANGED <<sReport, runVars, metricVars>>

SpecReviews == InitReviews /\ [][ScanReviews]_vars

\* the candidates that are numbers within (0, 5]
InRange(candidates) ==
    SelectSeq(candidates, LAMBDA c : ~c.nan /\ c.h > 0 /\ c.h <= 500)

\* the sources in the order of precedence
RatingSources(page) == <<page.schema, page.microdata, page.visible>>

\* C25: the reported average rating is the first in-range candidate of the
\* first source, in the order JSON-LD, microdata, visible text, that has one,
\* rounded to one decimal, and 0 if no source has one; it is 0 or within
\* (0, 5]; the rating of every platform entry is null.
C25_RatingPrecedence ==
    sPc = "scanned" =>
        LET sources == RatingSources(sReport)
            having == {i \in 1..3 : InRange(sources[i]) # <<>>}
            t == sOut.averageRatingTenths
        IN  /\ t \in 0..50
            /\ having = {} => t = 0
            /\ having # {} =>
                  LET first == CHOOSE i \in having : \A j \in having : i <= j
                      h == InRange(sources[first])[1].h
                  IN  10 * t - h \in -5..5
            /\ \A i \in 1..Len(sOut.platforms) :
                  sOut.platforms[i].rating = "null"

\* JSON-LD holds only a rating above 5, microdata and visible text each hold
\* a rating in range: the microdata rating 4.35 is reported
C25_Witness ==
    /\ sPc = "scanned"
    /\ sReport.schema = <<[nan |-> FALSE, h |-> 501]>>
    /\ sReport.microdata = <<[nan |-> TRUE, h |-> 0], [nan |-> FALSE, h |-> 435]>>
    /\ sReport.visible = <<[nan |-> FALSE, h |-> 600], [nan |-> FALSE, h |-> 450]>>
    /\ sReport.linked = {"Google"}
    /\ sOut.averageRatingTenths \in {43, 44}
    /\ sOut.platforms[1].url = "href" /\ sOut.platforms[1].rating = "null"

(***************************************************************************)
(* LocalPresenceScanner.detectGoogleBusinessProfile and validateGbpUrl.    *)
(* sReport is the page: the first link matching a profile pattern ("none"  *)
(* if there is none) and whether a maps iframe is present.  sOut is the    *)
(* result object, with the number of validation requests made and whether  *)
(* an exception left the scanner.                                          *)
(***************************************************************************)
validateGbpUrlAbove400(settled) ==
    CASE settled.kind = "response" ->
           IF settled.status > 400
              THEN [valid |-> FALSE, error |-> <<"Link returned HTTP", settled.status>>]
              ELSE [valid |-> TRUE, error |-> <<>>]
      [] settled.kind = "abort" ->
           [valid |-> FALSE, error |-> <<"Link validation timed out">>]
      [] OTHER ->
           [valid |-> FALSE, error |-> <<"Link could not be reached">>]

validateGbpUrl(settled) ==
    CASE settled.kind = "response" ->
           IF settled.status >= 400
              THEN [valid |-> FALSE, error |-> <<"Link returned HTTP", settled.status>>]
              ELSE [valid |-> TRUE, error |-> <<>>]
      [] settled.kind = "abort" ->
           [valid |-> FALSE, error |-> <<"Link validation timed out">>]
      [] OTHER ->
           [valid |-> FALSE, error |-> <<"Link could not be reached">>]

InitGbp ==
    /\ RunIdle /\ MetricIdle
    /\ sPc = "input"
    \* link: the href matching one of gbpPatterns, if any
    /\ sReport \in [link : {"maps.google.com?cid=", "google.com/maps/place",
                             "g.page/", "business.google.com", "none"},
                     iframe : BOOLEAN]
    /\ sOut = [exists |-> FALSE, url |-> "null", verified |-> FALSE,
               issues |-> <<>>, requests |-> 0, threw |-> FALSE,
               fetched |-> [kind |-> "none", status |-> 0]]

\* detectGoogleBusinessProfile up to the await of validateGbpUrl
DetectGbp ==
    /\ sPc = "input"
    /\ LET exists == sReport.link # "none" \/ sReport.iframe
           result == [sOut EXCEPT !.exists = exists,
                                  !.url = IF sReport.link # "none"
                                             THEN sReport.link ELSE "null"]
       IN  IF ~exists
              THEN /\ sOut' = [result EXCEPT !.issues =
                                  <<<<"No Google Business Profile link detected">>>>]
                   /\ sPc' = "returned"
           ELSE IF result.url # "null"
              THEN /\ sOut' = [result EXCEPT !.requests = @ + 1]
                   /\ sPc' = "validating"
           ELSE /\ sOut' = result
                /\ sPc' = "returned"
    /\ UNCHANGED <<sReport, runVars, metricVars>>

\* the fetch settles with a response, a rejection, or the abort by the
\* 5000 ms timer; validateGbpUrl returns and the result is completed
SettleGbp ==
    /\ sPc = "validating"
    /\ \E settled \in
            [kind : {"response"},
             status : {200, 204, 301, 399, 400, 403, 404, 410, 500, 503}]
                \cup [kind : {"networkError", "abort"}, status : {0}] :
         LET validation == validateGbpUrl(settled) IN
         sOut' = [sOut EXCEPT
                    !.fetched = settled,
                    !.verified = validation.valid,
                    !.issues = IF ~validation.valid /\ validation.error # <<>>
                                  THEN Append(@, validation.error) ELSE @]
    /\ sPc' = "returned"
    /\ UNCHANGED <<sReport, runVars, metricVars>>

NextGbp == DetectGbp \/ SettleGbp
SpecGbp == InitGbp /\ [][NextGbp]_vars

\* C26: verified is true iff a profile link was found and its validation
\* request returned a status below 400; after a status >= 400, a network
\* error or a timeout, verified is false and the issues are exactly the one
\* matching message; no exception leaves the scanner; a profile found only
\* through a maps iframe has exists true, url null, verified false and no
\* validation request.
C26_GbpVerification ==
    /\ ~sOut.threw
    /\ sOut.verified <=>
          /\ sReport.link # "none" /\ sOut.url = sReport.link
          /\ sOut.fetched.kind = "response" /\ sOut.fetched.status < 400
    /\ sOut.verified => sOut.issues = <<>> /\ sOut.requests = 1
    /\ (sPc = "returned" /\ sReport.link # "none" /\ ~sOut.verified) =>
          /\ sOut.requests = 1
          /\ sOut.issues =
                <<CASE sOut.fetched.kind = "response" ->
                         <<"Link returned HTTP", sOut.fetched.status>>
                    [] sOut.fetched.kind = "abort" ->
                         <<"Link validation timed out">>
                    [] OTHER -> <<"Link could not be reached">>>>
    /\ (sPc = "returned" /\ sReport.link = "none" /\ sReport.iframe) =>
          /\ sOut.exists /\ sOut.url = "null" /\ ~sOut.verified
          /\ sOut.requests = 0 /\ sOut.fetched.kind = "none"

C26_Witness ==
    /\ sPc = "returned"
    /\ sReport.link = "g.page/"
    /\ ~sOut.verified
    /\ sOut.issues = <<<<"Link returned HTTP", 400>>>>

(***************************************************************************)
(* SiteCrawler.crawl.  A URL is a natural number and the site is a link    *)
(* graph over all of them: Links gives the valid internal links of a page  *)
(* in document order, as extractLinks returns them.  sReport holds the     *)
(* site and the options, sOut the crawler's fields and the log of the      *)
(* fetchPage calls.                                                        *)
(***************************************************************************)
MaxPagesOption == 2
MaxDepthOption == 2

Links(graph, u) ==
    CASE graph = "tree"   -> <<2 * u, 2 * u + 1>>
      [] graph = "fan"    -> <<u + 1, u + 2, u + 3, u + 4, u + 5>>
      [] graph = "cycle"  -> <<(u % 3) + 1, u>>
      [] OTHER            -> <<>>

InitCrawl ==
    /\ RunIdle /\ MetricIdle
    /\ sPc = "start"
    /\ sReport \in [graph : {"tree", "fan", "cycle", "leaf"},
                     maxPages : 0..MaxPagesOption,
                     maxDepth : 0..MaxDepthOption,
                     sitemap : {<<>>, <<3, 1, 3>>},
                     disallowedPaths : {{}, {2}}]
    /\ sOut = [queue |-> <<>>, visited |-> {}, pages |-> <<>>, errors |-> <<>>,
               item |-> [url |-> 0, depth |-> 0], fetched |-> <<>>]

\* parseRobotsTxt, parseSitemap and the initial queue; the start URL is 1
StartCrawl ==
    /\ sPc = "start"
    /\ sOut' = [sOut EXCEPT !.queue =
                   IF Len(sReport.sitemap) > 0
                      THEN [i \in 1..Min(sReport.maxPages, Len(sReport.sitemap))
                              |-> [url |-> sReport.sitemap[i], depth |-> 0]]
                      ELSE <<[url |-> 1, depth |-> 0]>>]
    /\ sPc' = "loop"
    /\ UNCHANGED <<sReport, runVars, metricVars>>

\* one pass of the while loop up to the await of fetchPage, or the return
\* when the loop condition fails
Dequeue ==
    /\ sPc = "loop"
    /\ IF Len(sOut.queue) > 0 /\ Len(sOut.pages) < sReport.maxPages
          THEN LET item == Head(sOut.queue)
                   rest == [sOut EXCEPT !.queue = Tail(@)]
               IN  IF \/ item.url \in sOut.visited
                      \/ item.depth > sReport.maxDepth
                      \/ item.url \in sReport.disallowedPaths
                      THEN sOut' = rest /\ sPc' = "loop"
                      ELSE /\ sOut' = [rest EXCEPT
                                         !.visited = @ \cup {item.url},
                                         !.item = item,
                                         !.fetched = Append(@, item)]
                           /\ sPc' = "fetching"
          ELSE sOut' = sOut /\ sPc' = "returned"
    /\ UNCHANGED <<sReport, runVars, metricVars>>

\* for (const link of links): push unless visited or the cap is reached
RECURSIVE discoverUncapped(_, _, _)
discoverUncapped(st, links, depth) ==
    IF links = <<>> THEN st
    ELSE discoverUncapped(
             IF Head(links) \notin st.visited
                THEN [st EXCEPT !.queue =
                        Append(@, [url |-> Head(links), depth |-> depth + 1])]
                ELSE st,
             Tail(links), depth)

RECURSIVE discover(_, _, _)
discover(st, links, depth) ==
    IF links = <<>> THEN st
    ELSE discover(
             IF /\ Head(links) \notin st.visited
                /\ Len(st.pages) + Len(st.queue) < sReport.maxPages * 2
                THEN [st EXCEPT !.queue =
                        Append(@, [url |-> Head(links), depth |-> depth + 1])]
                ELSE st,
             Tail(links), depth)

\* fetchPage settles (its fetch is bounded by AbortSignal.timeout) and the
\* rest of the loop body runs: a page, null for a non-HTML response, or null
\* with an entry in errors
FetchPage ==
    /\ sPc = "fetching"
    /\ \E result \in {"page", "notHtml", "error"} :
         LET item == sOut.item IN
         CASE result = "page" ->
                LET pushed == [sOut EXCEPT !.pages = Append(@, item.url)]
                IN  sOut' = IF item.depth < sReport.maxDepth
                               THEN discover(pushed,
                                             Links(sReport.graph, item.url),
                                             item.depth)
                               ELSE pushed
           [] result = "error" ->
                sOut' = [sOut EXCEPT !.errors = Append(@, item.url)]
           [] OTHER -> sOut' = sOut
    /\ sPc' = "loop"
    /\ UNCHANGED <<sReport, runVars, metricVars>>

NextCrawl == StartCrawl \/ Dequeue \/ FetchPage

\* the continuation of every settled await runs
SpecCrawl == InitCrawl /\ [][NextCrawl]_vars /\ WF_vars(NextCrawl)

CrawlSafe ==
    /\ \A i, j \in 1..Len(sOut.fetched) :
          sOut.fetched[i].url = sOut.fetched[j].url => i = j
    /\ \A i \in 1..Len(sOut.fetched) :
          sOut.fetched[i].depth <= sReport.maxDepth
    /\ Len(sOut.pages) <= sReport.maxPages

\* C30: crawl returns after finitely many page fetches, on every link graph
\* and whatever fetches fail; no URL is fetched twice, none deeper than
\* maxDepth, the queue never grows beyond 2 * maxPages entries through link
\* discovery, and the result holds at most maxPages pages.
C30_CrawlTerminatesWithinLimits ==
    /\ []CrawlSafe
    /\ [][Len(sOut'.queue) > Len(sOut.queue) /\ sPc = "fetching"
            => Len(sOut'.queue) <= 2 * sReport.maxPages]_vars
    /\ <>(sPc = "returned")

\* a crawl of the unbounded fan graph returned with maxPages pages, a failed
\* fetch, and the queue still filled up to the cap
C30_Witness ==
    /\ sPc = "returned"
    /\ sReport.graph = "fan" /\ sReport.maxPages = 2
    /\ Len(sOut.pages) = 2
    /\ Len(sOut.errors) > 0
    /\ Len(sOut.pages) + Len(sOut.queue) = 4
    /\ \E i \in 1..Len(sOut.fetched) : sOut.fetched[i].depth = sReport.maxDepth

(***************************************************************************)
(* The network sub-checks of the analyzers: checkBrokenLinks and the image *)
(* checks of SeoScanner, checkSitemap, checkRobots, and checkSecurityHeaders*)
(* of TechScanner.  sReport names the sub-check, the number of requests it *)
(* makes and the requests whose host never answers; sOut holds the state   *)
(* of each request and the timer armed for it (0: none).                   *)
(***************************************************************************)
MaxRequests == 2

\* the abort timer a sub-check arms for each of its requests, in ms
SubCheckTimeout ==
    [brokenLinks |-> 10000, images |-> 5000, sitemap |-> 0, robots |-> 0,
     securityHeaders |-> 0]

InitSubCheck ==
    /\ RunIdle /\ MetricIdle
    /\ sPc = "running"
    /\ \E kind \in DOMAIN SubCheckTimeout :
       \E n \in 1..(CASE kind \in {"brokenLinks", "images"} -> MaxRequests
                      [] kind = "sitemap" -> 3
                      [] OTHER -> 1) :
       \E silent \in SUBSET (1..n) :
         /\ sReport = [kind |-> kind, requests |-> n, silent |-> silent]
         /\ sOut = [request |-> [i \in 1..n |-> "idle"],
                    timer |-> [i \in 1..n |-> 0],
                    threw |-> FALSE]

\* fetch(...) is called: checkBrokenLinks starts all its requests at once
\* (urls.map), the others one after the other
IssueRequest ==
    /\ sPc = "running"
    /\ \E i \in 1..sReport.requests :
         /\ sOut.request[i] = "idle"
         /\ sReport.kind # "brokenLinks" =>
               \A j \in 1..sReport.requests :
                   /\ sOut.request[j] # "pending"
                   /\ j < i => sOut.request[j] # "idle"
         /\ sOut' = [sOut EXCEPT !.request[i] = "pending",
                                 !.timer[i] = SubCheckTimeout[sReport.kind]]
    /\ UNCHANGED <<sPc, sReport, runVars, metricVars>>

\* the request settles: the host answers or refuses, or the armed timer
\* aborts it; every rejection is caught inside the sub-check.  checkSitemap
\* returns on the first ok response.
SettleRequest ==
    /\ sPc = "running"
    /\ \E i \in 1..sReport.requests :
       \E how \in {"ok", "notOk", "rejected", "aborted"} :
         /\ sOut.request[i] = "pending"
         /\ how = "aborted" => sOut.timer[i] > 0
         /\ how # "aborted" => i \notin sReport.silent
         /\ sOut' = [sOut EXCEPT !.request[i] = how, !.timer[i] = 0]
         /\ sPc' = IF sReport.kind = "sitemap" /\ how = "ok"
                      THEN "returned" ELSE "running"
    /\ UNCHANGED <<sReport, runVars, metricVars>>

\* every request has settled: the sub-check returns its result
ReturnSubCheck ==
    /\ sPc = "running"
    /\ \A i \in 1..sReport.requests : sOut.request[i] \notin {"idle", "pending"}
    /\ sPc' = "returned"
    /\ UNCHANGED <<sReport, sOut, runVars, metricVars>>

NextSubCheck == IssueRequest \/ SettleRequest \/ ReturnSubCheck
SpecSubCheck == InitSubCheck /\ [][NextSubCheck]_vars

\* C22: every request of a network sub-check has its own timeout armed
\* while it is pending and its failure is caught locally: the sub-check
\* never throws and, unless it has returned, can always take a next step,
\* also when a host never answers.
C22_SubChecksBounded ==
    /\ ~sOut.threw
    /\ \A i \in 1..sReport.requests :
          sOut.request[i] = "pending" => sOut.timer[i] > 0
    /\ sPc = "returned" \/ ENABLED NextSubCheck

(***************************************************************************)
(* The CLI audit command.  sReport is the command line (the url argument   *)
(* and the option strings), sOut what the command has done: what it        *)
(* printed, the files it wrote, whether it reported a failure and the      *)
(* status it exited with (0: process.exit was not called).                 *)
(***************************************************************************)
\* AuditConfigSchema.parse succeeds; parseInt of a non-number is NaN
validateConfig(in) ==
    /\ in.url # ""
    /\ \A i \in 1..Len(in.format) : in.format[i] \in {"json", "html", "pdf"}
    /\ in.device \in {"mobile", "desktop", "both"}
    /\ in.timeout = "60000"

\* the fields of the object runAudit resolves with
NewAuditEngineResult ==
    [f \in {"screenshots", "newScores", "scoreBreakdowns", "facts",
            "suggestions", "legacy"} |-> [type |-> "object", v |-> 0]]

\* the try block after await runAudit: printScores(result.scores) reads
\* scores.performance and printSummary(result) destructures result.details,
\* each a TypeError on undefined; then mkdir, the JSON report, the last line
afterAudit(in, result) ==
    LET Property(obj, f) == IF f \in DOMAIN obj THEN obj[f] ELSE Undefined
        json == \E i \in 1..Len(in.format) : in.format[i] = "json"
    IN  IF Property(result, "scores") = Undefined
           THEN [threw |-> TRUE, printed |-> <<>>, written |-> {}]
        ELSE IF Property(result, "details") = Undefined
           THEN [threw |-> TRUE, printed |-> <<"scores">>, written |-> {}]
        ELSE [threw |-> FALSE,
              printed |-> <<"scores", "summary", "completed">>,
              written |-> IF json THEN {"<output>/<id>.json"} ELSE {}]

InitCli ==
    /\ RunIdle /\ MetricIdle
    /\ sPc = "validate"
    /\ sReport \in [url : {"", "site.example"},
                     format : {<<"json">>, <<"html">>, <<"json", "html">>,
                               <<"pdf">>, <<"xml">>},
                     device : {"both", "mobile", "phone"},
                     timeout : {"60000", "abc"}]
    /\ sOut = [audit |-> "none", printed |-> <<>>, written |-> {},
               failed |-> FALSE, exit |-> 0]

\* validateConfig(...) and the call of runAudit
ValidateConfig ==
    /\ sPc = "validate"
    /\ sPc' = IF validateConfig(sReport) THEN "audit" ELSE "catch"
    /\ UNCHANGED <<sReport, sOut, runVars, metricVars>>

\* runAudit settles and the rest of the try block runs
AuditSettles ==
    /\ sPc = "audit"
    /\ \/ /\ sOut' = [sOut EXCEPT !.audit = "rejected"]
          /\ sPc' = "catch"
       \/ LET rest == afterAudit(sReport, NewAuditEngineResult) IN
          /\ sOut' = [sOut EXCEPT !.audit = "resolved",
                                  !.printed = rest.printed,
                                  !.written = rest.written]
          /\ sPc' = IF rest.threw THEN "catch" ELSE "done"
    /\ UNCHANGED <<sReport, runVars, metricVars>>

\* catch: console.error("Audit failed:", ...), process.exit(1)
AuditFailed ==
    /\ sPc = "catch"
    /\ sOut' = [sOut EXCEPT !.failed = TRUE, !.exit = 1]
    /\ sPc' = "exited"
    /\ UNCHANGED <<sReport, runVars, metricVars>>

NextCli == ValidateConfig \/ AuditSettles \/ AuditFailed
SpecCli == InitCli /\ [][NextCli]_vars

\* C24: when runAudit resolved, the command prints the scores and the
\* summary, writes <output>/<id>.json iff the formats include json, and
\* reports no failure; it exits with status 1 only when validation or the
\* audit failed.
C24_CliReportsSuccess ==
    /\ (sOut.audit = "resolved" /\ sPc \in {"done", "exited"}) =>
          /\ sOut.printed = <<"scores", "summary", "completed">>
          /\ sOut.written =
                IF \E i \in 1..Len(sReport.format) : sReport.format[i] = "json"
                   THEN {"<output>/<id>.json"} ELSE {}
          /\ ~sOut.failed
    /\ sOut.exit = 1 => ~validateConfig(sReport) \/ sOut.audit = "rejected"

====
